---- MODULE Spec2Model ----
(***************************************************************************)
(* WealthFlow: two-layer double-entry ledger, split-rule allocation engine *)
(* and posting services, modelled from the Go backend.                     *)
(*                                                                         *)
(* Money values are shopspring decimals in the code.  Here a decimal d is  *)
(* the integer d * Hundred (hundredths).  Totals and FIXED values range    *)
(* over whole units and PERCENT values over whole numbers, so that         *)
(* remaining * value / 100 is exact in hundredths, as it is in the code.   *)
(***************************************************************************)
EXTENDS Integers, Sequences, FiniteSets, TLC

\* ------------------------------------------------------------------------
\* Bounds of the model
\* ------------------------------------------------------------------------
MaxItems == 3
MaxTotal == 2
MaxTx == 2
MaxEntries == 3
MaxPoints == 2

\* ------------------------------------------------------------------------
\* Domain constants
\* ------------------------------------------------------------------------
Hundred == 100

Dec(n) == n * Hundred

SplitRuleItemTypeFixed == "FIXED"
SplitRuleItemTypePercent == "PERCENT"
SplitRuleItemTypeRemainder == "REMAINDER"

EntryTypeDebit == "DEBIT"
EntryTypeCredit == "CREDIT"
LayerPhysical == "PHYSICAL"
LayerVirtual == "VIRTUAL"

BucketTypePhysical == "PHYSICAL"
BucketTypeVirtual == "VIRTUAL"
BucketTypeIncome == "INCOME"
BucketTypeExpense == "EXPENSE"
BucketTypeEquity == "EQUITY"
BucketTypeSystem == "SYSTEM"

NoError == "nil"
Pending == "pending"
ErrTotalNotPositive == "total amount must be positive"
ErrItemsEmpty == "items list cannot be empty"
ErrFixedExceeds == "FIXED amount exceeds remaining balance"
ErrNoRemainder == "no REMAINDER item found"
ErrAllocationImbalance == "total allocation does not equal total amount"

\* ------------------------------------------------------------------------
\* Go maps: a map is a function on its key set; a range statement visits the
\* keys in an unspecified order, modelled by an ordering of the key set that
\* is chosen anew for each range statement.
\* ------------------------------------------------------------------------
EmptyMap == << >>

MapPut(m, k, v) == [x \in (DOMAIN m) \cup {k} |-> IF x = k THEN v ELSE m[x]]

Orderings(S) ==
    { s \in [1..Cardinality(S) -> S] : \A i, j \in 1..Cardinality(S) : i # j => s[i] # s[j] }

RangeOrders(m) == Orderings(DOMAIN m)

\* ------------------------------------------------------------------------
\* Allocation engine (allocator.CalculateAllocation)
\* ------------------------------------------------------------------------

\* sort.Slice on fewer than 12 elements is a plain insertion sort: element i
\* moves left while it is strictly less than its left neighbour.
RECURSIVE InsertByPriority(_, _)
InsertByPriority(sorted, item) ==
    IF sorted = << >> \/ ~(item.priority < sorted[Len(sorted)].priority)
    THEN Append(sorted, item)
    ELSE Append(InsertByPriority(SubSeq(sorted, 1, Len(sorted) - 1), item),
                sorted[Len(sorted)])

RECURSIVE SortByPriority(_)
SortByPriority(items) ==
    IF items = << >> THEN << >>
    ELSE InsertByPriority(SortByPriority(SubSeq(items, 1, Len(items) - 1)),
                          items[Len(items)])

\* The comparison of step 1: a FIXED value that exceeds what is left.
FixedOverflowsMut(value, remaining) == value >= remaining
FixedOverflows(value, remaining) == value > remaining

\* Step 1: deduct FIXED amounts, items[i..] still to visit.
RECURSIVE FixedPass(_, _, _, _)
FixedPass(sortedItems, i, allocation, remaining) ==
    IF i > Len(sortedItems)
    THEN [err |-> NoError, allocation |-> allocation, remaining |-> remaining]
    ELSE LET item == sortedItems[i] IN
         IF item.type = SplitRuleItemTypeFixed
         THEN IF FixedOverflows(item.value, remaining)
              THEN [err |-> ErrFixedExceeds, allocation |-> EmptyMap, remaining |-> remaining]
              ELSE FixedPass(sortedItems, i + 1,
                             MapPut(allocation, item.target, item.value),
                             remaining - item.value)
         ELSE FixedPass(sortedItems, i + 1, allocation, remaining)

\* remaining.Mul(item.Value).Div(decimal.NewFromInt(100))
PercentAmountMut(remaining, value, percentTotal) == ((remaining - percentTotal) * value) \div Hundred
PercentAmount(remaining, value, percentTotal) == (remaining * value) \div Hundred

\* Step 2: PERCENT amounts, all against the same remaining.
RECURSIVE PercentPass(_, _, _, _, _)
PercentPass(sortedItems, i, allocation, remaining, percentTotal) ==
    IF i > Len(sortedItems)
    THEN allocation
    ELSE LET item == sortedItems[i] IN
         IF item.type = SplitRuleItemTypePercent
         THEN LET percentAmount == PercentAmount(remaining, item.value, percentTotal) IN
              PercentPass(sortedItems, i + 1,
                          MapPut(allocation, item.target, percentAmount),
                          remaining, percentTotal + percentAmount)
         ELSE PercentPass(sortedItems, i + 1, allocation, remaining, percentTotal)

\* findRemainderItem: index of the first REMAINDER item, 0 when there is none.
FindRemainderItem(items) ==
    IF \E i \in 1..Len(items) : items[i].type = SplitRuleItemTypeRemainder
    THEN CHOOSE i \in 1..Len(items) :
            /\ items[i].type = SplitRuleItemTypeRemainder
            /\ \A j \in 1..(i - 1) : items[j].type # SplitRuleItemTypeRemainder
    ELSE 0

\* for _, amount := range allocation { acc = acc.Add(amount) }
RECURSIVE SumInOrder(_, _)
SumInOrder(m, keys) ==
    IF keys = << >> THEN 0 ELSE m[Head(keys)] + SumInOrder(m, Tail(keys))

AccumulateLast(m, keys) == IF keys = << >> THEN 0 ELSE m[keys[Len(keys)]]
SumOverMap(m, keys) == SumInOrder(m, keys)

\* The final safety check of CalculateAllocation.
TotalsEqualMut(totalAllocated, totalAmount) == TRUE
TotalsEqual(totalAllocated, totalAmount) == totalAllocated = totalAmount

\* CalculateAllocation up to and including findRemainderItem: everything
\* that does not range over the allocation map.
AllocateFixedAndPercent(totalAmount, items) ==
    IF totalAmount <= 0
    THEN [err |-> ErrTotalNotPositive, allocation |-> EmptyMap, remainderTarget |-> ""]
    ELSE IF Len(items) = 0
    THEN [err |-> ErrItemsEmpty, allocation |-> EmptyMap, remainderTarget |-> ""]
    ELSE
    LET sortedItems == SortByPriority(items)
        fixed == FixedPass(sortedItems, 1, EmptyMap, totalAmount)
    IN  IF fixed.err # NoError
        THEN [err |-> fixed.err, allocation |-> EmptyMap, remainderTarget |-> ""]
        ELSE
        LET r == FindRemainderItem(sortedItems) IN
        IF r = 0
        THEN [err |-> ErrNoRemainder, allocation |-> EmptyMap, remainderTarget |-> ""]
        ELSE [err |-> NoError,
              allocation |-> PercentPass(sortedItems, 1, fixed.allocation, fixed.remaining, 0),
              remainderTarget |-> sortedItems[r].target]

\* Step 3 and the safety check; order1 and order2 are the iteration orders
\* of the two range statements over the allocation map.
AssignRemainder(pre, totalAmount, order1, order2) ==
    IF pre.err # NoError
    THEN [err |-> pre.err, allocation |-> EmptyMap]
    ELSE
    LET allocatedSoFar == SumOverMap(pre.allocation, order1)
        remainderAmount == totalAmount - allocatedSoFar
        allocation == MapPut(pre.allocation, pre.remainderTarget, remainderAmount)
        totalAllocated == SumOverMap(allocation, order2)
    IN  IF ~TotalsEqual(totalAllocated, totalAmount)
        THEN [err |-> ErrAllocationImbalance, allocation |-> EmptyMap]
        ELSE [err |-> NoError, allocation |-> allocation]

CalculateAllocation(totalAmount, items, order1, order2) ==
    AssignRemainder(AllocateFixedAndPercent(totalAmount, items), totalAmount, order1, order2)

\* ------------------------------------------------------------------------
\* Harness for the allocation engine: an input is drawn, then the engine
\* is called twice on it (each call with its own map iteration orders).
\* ------------------------------------------------------------------------
AllocTargets == {"Vault", "FreeCash", "Emergency"}
Priorities == {1, 2}
ItemShapes ==
    { [type |-> SplitRuleItemTypeFixed, value |-> Dec(1)],
      [type |-> SplitRuleItemTypePercent, value |-> 60],
      [type |-> SplitRuleItemTypeRemainder, value |-> 0] }
AllocItems ==
    { [target |-> t, type |-> s.type, value |-> s.value, priority |-> p] :
        t \in AllocTargets, s \in ItemShapes, p \in Priorities }
\* Bucket identifiers are opaque to the engine (map keys compared for
\* equality only), so item lists are drawn up to renaming of targets: the
\* k-th distinct target of a list is TargetNames[k].
TargetNames == <<"Vault", "FreeCash", "Emergency">>
TargetsInFirstUseOrder(items) ==
    \A i \in 1..Len(items) : \A k \in 2..Len(TargetNames) :
        items[i].target = TargetNames[k] =>
            \E j \in 1..(i - 1) : items[j].target = TargetNames[k - 1]
AllocItemLists ==
    { l \in UNION { [1..n -> AllocItems] : n \in 0..MaxItems } : TargetsInFirstUseOrder(l) }
AllocTotals == { Dec(n) : n \in 0..MaxTotal }

\* Every result a call can produce, over the iteration orders of its ranges.
CalculateAllocationResults(totalAmount, items) ==
    LET pre == AllocateFixedAndPercent(totalAmount, items) IN
    IF pre.err # NoError
    THEN { AssignRemainder(pre, totalAmount, << >>, << >>) }
    ELSE { AssignRemainder(pre, totalAmount, o1, o2) :
             o1 \in RangeOrders(pre.allocation),
             o2 \in Orderings((DOMAIN pre.allocation) \cup {pre.remainderTarget}) }

PendingResult == [err |-> Pending, allocation |-> EmptyMap]

\* ------------------------------------------------------------------------
\* Domain: buckets, transactions, Transaction.Validate
\* ------------------------------------------------------------------------
NilId == "nil"
MissingId == "Missing"

\* The bucket table as the administrative path leaves it: every balance is
\* zero, every VIRTUAL bucket has a PHYSICAL parent.
BucketFixture ==
    [ Checking   |-> [bucketType |-> BucketTypePhysical, parent |-> NilId, currentBalance |-> 0],
      CreditCard |-> [bucketType |-> BucketTypePhysical, parent |-> NilId, currentBalance |-> 0],
      Vault      |-> [bucketType |-> BucketTypeVirtual, parent |-> "Checking", currentBalance |-> 0],
      FreeCash   |-> [bucketType |-> BucketTypeVirtual, parent |-> "Checking", currentBalance |-> 0],
      Emergency  |-> [bucketType |-> BucketTypeVirtual, parent |-> "Checking", currentBalance |-> 0],
      Rewards    |-> [bucketType |-> BucketTypeVirtual, parent |-> "CreditCard", currentBalance |-> 0],
      Employer   |-> [bucketType |-> BucketTypeIncome, parent |-> NilId, currentBalance |-> 0],
      Freelance  |-> [bucketType |-> BucketTypeIncome, parent |-> NilId, currentBalance |-> 0],
      Groceries  |-> [bucketType |-> BucketTypeExpense, parent |-> NilId, currentBalance |-> 0] ]

Entry(bucket, amount, type, layer) ==
    [bucket |-> bucket, amount |-> amount, type |-> type, layer |-> layer]

NoTx == [id |-> 0, isInternalTransfer |-> FALSE, isExternalInflow |-> FALSE, entries |-> << >>]

ErrNoEntries == "transaction must have at least one entry"
ErrEntryLayer == "entry layer must be PHYSICAL or VIRTUAL"
ErrEntryAmount == "entry amount must be positive (absolute value)"
ErrEntryType == "entry type must be DEBIT or CREDIT"
ErrPhysicalImbalance == "sum of debits must equal sum of credits for PHYSICAL layer"
ErrVirtualImbalance == "sum of debits must equal sum of credits for VIRTUAL layer"

RECURSIVE SumAmounts(_, _, _)
SumAmounts(entrySeq, i, debit) ==
    IF i > Len(entrySeq) THEN 0
    ELSE (IF (entrySeq[i].type = EntryTypeDebit) = debit THEN entrySeq[i].amount ELSE 0)
         + SumAmounts(entrySeq, i + 1, debit)

\* validateLayerBalance: an empty layer is valid; otherwise debits = credits.
ValidateLayerBalance(layerEntries, imbalance) ==
    IF Len(layerEntries) = 0 THEN NoError
    ELSE IF SumAmounts(layerEntries, 1, TRUE) # SumAmounts(layerEntries, 1, FALSE)
    THEN imbalance
    ELSE NoError

\* A variant of the per-entry checks that lets a zero amount pass.
RECURSIVE ValidateEntriesAllowingZero(_, _)
ValidateEntriesAllowingZero(entrySeq, i) ==
    IF i > Len(entrySeq) THEN NoError
    ELSE LET entry == entrySeq[i] IN
         IF entry.layer \notin {LayerPhysical, LayerVirtual} THEN ErrEntryLayer
         ELSE IF entry.amount < 0 THEN ErrEntryAmount
         ELSE IF entry.type \notin {EntryTypeDebit, EntryTypeCredit} THEN ErrEntryType
         ELSE ValidateEntriesAllowingZero(entrySeq, i + 1)

\* The per-entry checks of Transaction.Validate, first failing entry first.
RECURSIVE ValidateEntries(_, _)
ValidateEntries(entrySeq, i) ==
    IF i > Len(entrySeq) THEN NoError
    ELSE LET entry == entrySeq[i] IN
         IF entry.layer \notin {LayerPhysical, LayerVirtual} THEN ErrEntryLayer
         ELSE IF entry.amount <= 0 THEN ErrEntryAmount
         ELSE IF entry.type \notin {EntryTypeDebit, EntryTypeCredit} THEN ErrEntryType
         ELSE ValidateEntries(entrySeq, i + 1)

Validate(tx) ==
    IF Len(tx.entries) = 0 THEN ErrNoEntries
    ELSE
    LET perEntry == ValidateEntries(tx.entries, 1)
        physicalEntries == SelectSeq(tx.entries, LAMBDA e : e.layer = LayerPhysical)
        virtualEntries == SelectSeq(tx.entries, LAMBDA e : e.layer = LayerVirtual)
    IN  IF perEntry # NoError THEN perEntry
        ELSE IF ValidateLayerBalance(physicalEntries, ErrPhysicalImbalance) # NoError
        THEN ErrPhysicalImbalance
        ELSE ValidateLayerBalance(virtualEntries, ErrVirtualImbalance)

\* SplitRule.Validate, on the items of a rule.
ErrSplitRuleEmpty == "split rule must have at least one item"
ErrSplitRuleItemType == "split rule item type must be FIXED, PERCENT, or REMAINDER"
ErrFixedNotPositive == "FIXED split rule item value must be positive"
ErrPercentRange == "PERCENT split rule item value must be between 0 and 100"
ErrRemainderCount == "split rule must have exactly one REMAINDER item"

RECURSIVE ValidateItems(_, _, _)
ValidateItems(items, i, remainderCount) ==
    IF i > Len(items)
    THEN IF remainderCount # 1 THEN ErrRemainderCount ELSE NoError
    ELSE LET item == items[i] IN
         IF item.type \notin { SplitRuleItemTypeFixed, SplitRuleItemTypePercent,
                               SplitRuleItemTypeRemainder }
         THEN ErrSplitRuleItemType
         ELSE IF item.type = SplitRuleItemTypeFixed /\ item.value <= 0
         THEN ErrFixedNotPositive
         ELSE IF item.type = SplitRuleItemTypePercent /\ (item.value < 0 \/ item.value > Hundred)
         THEN ErrPercentRange
         ELSE ValidateItems(items, i + 1,
                            IF item.type = SplitRuleItemTypeRemainder
                            THEN remainderCount + 1 ELSE remainderCount)

ValidateSplitRule(items) ==
    IF Len(items) = 0 THEN ErrSplitRuleEmpty ELSE ValidateItems(items, 1, 0)

\* ------------------------------------------------------------------------
\* State
\* ------------------------------------------------------------------------
\*  aTotal, aItems, aFirst, aSecond : the allocation-engine harness
\*  gTx, gTasks   : the transfer-task generator harness: the transaction
\*                  handed to GenerateTasks and what it returned
\*  buckets       : the committed buckets table, id -> row
\*  splitRules    : the split-rule tables, source bucket id -> stored items
\*  transactions  : the committed transactions table (headers)
\*  entries       : the committed transaction_entries table (rows)
\*  marketValueHistory : the market_value_history table, in insertion order
\*  nextTxId      : stands for uuid.New() of transaction ids
\*  pc, ptx, pn, plocal : per request handler, the position inside
\*                  transactionRepository.Create, the transaction being
\*                  persisted, the number of entries inserted so far and the
\*                  bucket rows written (and locked) by the open database
\*                  transaction
\*  result        : per request handler, what the last call returned
\*  outcome       : history, transaction id -> the transaction handed to
\*                  Create and what became of it (open, committed, aborted)
VARIABLES aTotal, aItems, aFirst, aSecond, gTx, gTasks,
          buckets, splitRules, transactions, entries, marketValueHistory, nextTxId,
          pc, ptx, pn, plocal, result, outcome

avars == <<aTotal, aItems, aFirst, aSecond, gTx, gTasks>>

dbvars == <<buckets, splitRules, transactions, entries, marketValueHistory>>

lvars == <<buckets, splitRules, transactions, entries, marketValueHistory, nextTxId,
           pc, ptx, pn, plocal, result, outcome>>

vars == <<aTotal, aItems, aFirst, aSecond, gTx, gTasks,
          buckets, splitRules, transactions, entries, marketValueHistory, nextTxId,
          pc, ptx, pn, plocal, result, outcome>>

Handlers == {"h1", "h2"}

\* ------------------------------------------------------------------------
\* Repositories (reads see committed rows only)
\* ------------------------------------------------------------------------
ErrBucketNotFound == "bucket not found"
ErrSplitRuleNotFound == "split rule not found for source bucket ID"
ErrSplitRuleNoItems == "split rule has no items"

Fail(err) == [err |-> err, tx |-> NoTx]

\* bucketRepository.GetByID
GetByID(id) ==
    IF id \in DOMAIN buckets
    THEN [err |-> NoError, id |-> id, bucketType |-> buckets[id].bucketType,
          parent |-> buckets[id].parent]
    ELSE [err |-> ErrBucketNotFound, id |-> id, bucketType |-> "", parent |-> NilId]

\* splitRuleRepository.GetBySourceBucketID: the items come back sorted by
\* priority; rows of equal priority keep the order of the stored list.
GetBySourceBucketID(bucketID) ==
    IF bucketID \notin DOMAIN splitRules
    THEN [err |-> ErrSplitRuleNotFound, items |-> << >>]
    ELSE IF Len(splitRules[bucketID]) = 0
    THEN [err |-> ErrSplitRuleNoItems, items |-> << >>]
    ELSE [err |-> NoError, items |-> SortByPriority(splitRules[bucketID])]

\* ------------------------------------------------------------------------
\* Inflow service (InflowService.RecordInflow, recordExternalInflow)
\* ------------------------------------------------------------------------
ErrInflowAmount == "inflow amount must be positive"
ErrSourceNotIncome == "source bucket must be an income bucket"
ErrInternalNotImplemented == "internal transfer inflow not yet implemented"
ErrRuleNoItems == "split rule must have at least one item"
ErrFirstTargetNotVirtual == "split rule target buckets must be virtual buckets"
ErrVirtualNoParent == "virtual bucket must have a parent physical bucket"
ErrTargetNotVirtual == "all split rule target buckets must be virtual buckets"
ErrTargetOtherParent == "all split rule target buckets must belong to the same parent physical bucket"

\* The loop that verifies every allocated target, in the order the range
\* over the allocation map visits them; the first failure is returned.
RECURSIVE VerifyTargets(_, _)
VerifyTargets(keys, parentPhysicalBucketID) ==
    IF keys = << >> THEN NoError
    ELSE LET targetBucket == GetByID(Head(keys)) IN
         IF targetBucket.err # NoError THEN targetBucket.err
         ELSE IF targetBucket.bucketType # BucketTypeVirtual THEN ErrTargetNotVirtual
         ELSE IF targetBucket.parent = NilId THEN ErrVirtualNoParent
         ELSE IF targetBucket.parent # parentPhysicalBucketID THEN ErrTargetOtherParent
         ELSE VerifyTargets(Tail(keys), parentPhysicalBucketID)

\* The physical destination of an inflow: the parent of the first target.
PhysicalDestination(firstTargetBucket) == firstTargetBucket.parent

InflowFlagsMut == [isInternalTransfer |-> TRUE, isExternalInflow |-> FALSE]
InflowFlags == [isInternalTransfer |-> FALSE, isExternalInflow |-> TRUE]

\* The entries of an inflow; keys is the order in which the range over the
\* allocation map yields the targets.
InflowEntriesMut(amount, sourceBucketID, parentPhysicalBucketID, allocation, keys) ==
    << Entry(sourceBucketID, amount, EntryTypeDebit, LayerPhysical),
       Entry(sourceBucketID, amount, EntryTypeCredit, LayerPhysical) >>
    \o [i \in 1..Len(keys) |-> Entry(keys[i], allocation[keys[i]], EntryTypeDebit, LayerVirtual)]
    \o << Entry(sourceBucketID, amount, EntryTypeCredit, LayerVirtual) >>
InflowEntries(amount, sourceBucketID, parentPhysicalBucketID, allocation, keys) ==
    << Entry(parentPhysicalBucketID, amount, EntryTypeDebit, LayerPhysical),
       Entry(sourceBucketID, amount, EntryTypeCredit, LayerPhysical) >>
    \o [i \in 1..Len(keys) |-> Entry(keys[i], allocation[keys[i]], EntryTypeDebit, LayerVirtual)]
    \o << Entry(sourceBucketID, amount, EntryTypeCredit, LayerVirtual) >>

\* recordExternalInflow from the first-target lookup on, for one allocation.
InflowFromAllocation(amount, sourceBucketID, items, allocation) ==
    IF Len(items) = 0 THEN { Fail(ErrRuleNoItems) }
    ELSE
    LET firstTargetBucket == GetByID(items[1].target) IN
    IF firstTargetBucket.err # NoError THEN { Fail(firstTargetBucket.err) }
    ELSE IF firstTargetBucket.bucketType # BucketTypeVirtual THEN { Fail(ErrFirstTargetNotVirtual) }
    ELSE IF firstTargetBucket.parent = NilId THEN { Fail(ErrVirtualNoParent) }
    ELSE
    LET parentPhysicalBucketID == PhysicalDestination(firstTargetBucket) IN
    { LET verified == VerifyTargets(verifyKeys, parentPhysicalBucketID)
          tx == [id |-> nextTxId,
                 isInternalTransfer |-> InflowFlags.isInternalTransfer,
                 isExternalInflow |-> InflowFlags.isExternalInflow,
                 entries |-> InflowEntries(amount, sourceBucketID, parentPhysicalBucketID,
                                           allocation, entryKeys)]
      IN  IF verified # NoError THEN Fail(verified)
          ELSE IF Validate(tx) # NoError THEN Fail(Validate(tx))
          ELSE [err |-> NoError, tx |-> tx] :
      verifyKeys \in RangeOrders(allocation), entryKeys \in RangeOrders(allocation) }

\* Everything RecordInflow can return before TransactionRepo.Create runs.
RecordInflowOutcomesMut(amount, sourceBucketID, isExternal) ==
    LET sourceBucket == GetByID(sourceBucketID) IN
    IF sourceBucket.err # NoError THEN { Fail(sourceBucket.err) }
    ELSE IF sourceBucket.bucketType # BucketTypeIncome THEN { Fail(ErrSourceNotIncome) }
    ELSE IF amount <= 0 THEN { Fail(ErrInflowAmount) }
    ELSE IF ~isExternal THEN { Fail(ErrInternalNotImplemented) }
    ELSE
    LET splitRule == GetBySourceBucketID(sourceBucketID) IN
    IF splitRule.err # NoError THEN { Fail(splitRule.err) }
    ELSE UNION { IF a.err # NoError
                 THEN { Fail(a.err) }
                 ELSE InflowFromAllocation(amount, sourceBucketID, splitRule.items, a.allocation) :
                 a \in CalculateAllocationResults(amount, splitRule.items) }

RecordInflowOutcomes(amount, sourceBucketID, isExternal) ==
    IF amount <= 0 THEN { Fail(ErrInflowAmount) }
    ELSE
    LET sourceBucket == GetByID(sourceBucketID) IN
    IF sourceBucket.err # NoError THEN { Fail(sourceBucket.err) }
    ELSE IF sourceBucket.bucketType # BucketTypeIncome THEN { Fail(ErrSourceNotIncome) }
    ELSE IF ~isExternal THEN { Fail(ErrInternalNotImplemented) }
    ELSE
    LET splitRule == GetBySourceBucketID(sourceBucketID) IN
    IF splitRule.err # NoError THEN { Fail(splitRule.err) }
    ELSE UNION { IF a.err # NoError
                 THEN { Fail(a.err) }
                 ELSE InflowFromAllocation(amount, sourceBucketID, splitRule.items, a.allocation) :
                 a \in CalculateAllocationResults(amount, splitRule.items) }

\* ------------------------------------------------------------------------
\* Expense service (ExpenseService.LogExpense)
\* ------------------------------------------------------------------------
ErrExpenseAmount == "expense amount must be positive"
ErrNotVirtual == "virtual bucket ID must reference a virtual bucket"
ErrNotExpense == "category bucket ID must reference an expense bucket"
ErrOverrideNotPhysical == "physical override bucket must be a physical bucket"
ErrVirtualNoParentID == "virtual bucket must have a parent physical bucket ID"

ExpenseEntriesMut(amount, sourcePhysicalBucketID, virtualBucketID, categoryBucketID) ==
    << Entry(sourcePhysicalBucketID, amount, EntryTypeDebit, LayerPhysical),
       Entry(categoryBucketID, amount, EntryTypeCredit, LayerPhysical),
       Entry(virtualBucketID, amount, EntryTypeCredit, LayerVirtual),
       Entry(categoryBucketID, amount, EntryTypeDebit, LayerVirtual) >>

ExpenseEntries(amount, sourcePhysicalBucketID, virtualBucketID, categoryBucketID) ==
    << Entry(sourcePhysicalBucketID, amount, EntryTypeCredit, LayerPhysical),
       Entry(categoryBucketID, amount, EntryTypeDebit, LayerPhysical),
       Entry(virtualBucketID, amount, EntryTypeCredit, LayerVirtual),
       Entry(categoryBucketID, amount, EntryTypeDebit, LayerVirtual) >>

\* Step 2 of LogExpense, the source physical bucket: the override when one
\* is given (NilId when not), else the parent of the virtual bucket.
SourcePhysicalBucketIgnoringOverride(virtualBucket, override) ==
    IF override # NilId /\ GetByID(override).err # NoError
    THEN [err |-> GetByID(override).err, id |-> override]
    ELSE IF override # NilId /\ GetByID(override).bucketType # BucketTypePhysical
    THEN [err |-> ErrOverrideNotPhysical, id |-> override]
    ELSE IF virtualBucket.parent = NilId
    THEN [err |-> ErrVirtualNoParentID, id |-> NilId]
    ELSE [err |-> NoError, id |-> virtualBucket.parent]

SourcePhysicalBucketUnchecked(virtualBucket, override) ==
    IF override # NilId
    THEN IF GetByID(override).err # NoError
         THEN [err |-> GetByID(override).err, id |-> override]
         ELSE [err |-> NoError, id |-> override]
    ELSE IF virtualBucket.parent = NilId
         THEN [err |-> ErrVirtualNoParentID, id |-> NilId]
         ELSE [err |-> NoError, id |-> virtualBucket.parent]

SourcePhysicalBucket(virtualBucket, override) ==
    IF override # NilId
    THEN LET overrideBucket == GetByID(override) IN
         IF overrideBucket.err # NoError
         THEN [err |-> overrideBucket.err, id |-> override]
         ELSE IF overrideBucket.bucketType # BucketTypePhysical
         THEN [err |-> ErrOverrideNotPhysical, id |-> override]
         ELSE [err |-> NoError, id |-> override]
    ELSE IF virtualBucket.parent = NilId
         THEN [err |-> ErrVirtualNoParentID, id |-> NilId]
         ELSE [err |-> NoError, id |-> virtualBucket.parent]

\* What LogExpense returns before TransactionRepo.Create runs.
LogExpenseOutcome(amount, virtualBucketID, categoryBucketID, override) ==
    IF amount <= 0 THEN Fail(ErrExpenseAmount)
    ELSE
    LET virtualBucket == GetByID(virtualBucketID) IN
    IF virtualBucket.err # NoError THEN Fail(virtualBucket.err)
    ELSE IF virtualBucket.bucketType # BucketTypeVirtual THEN Fail(ErrNotVirtual)
    ELSE
    LET categoryBucket == GetByID(categoryBucketID) IN
    IF categoryBucket.err # NoError THEN Fail(categoryBucket.err)
    ELSE IF categoryBucket.bucketType # BucketTypeExpense THEN Fail(ErrNotExpense)
    ELSE
    LET source == SourcePhysicalBucket(virtualBucket, override)
        tx == [id |-> nextTxId, isInternalTransfer |-> FALSE, isExternalInflow |-> FALSE,
               entries |-> ExpenseEntries(amount, source.id, virtualBucketID, categoryBucketID)]
    IN  IF source.err # NoError THEN Fail(source.err)
        ELSE IF Validate(tx) # NoError THEN Fail(Validate(tx))
        ELSE [err |-> NoError, tx |-> tx]

\* ------------------------------------------------------------------------
\* Transfer-task generator (task_generator.GenerateTasks)
\* ------------------------------------------------------------------------
TransferTask(relatedTransactionID, fromPhysicalBucketID, toPhysicalBucketID, amount) ==
    [relatedTransactionID |-> relatedTransactionID,
     completedTransactionID |-> NilId,
     fromPhysicalBucketID |-> fromPhysicalBucketID,
     toPhysicalBucketID |-> toPhysicalBucketID,
     amount |-> amount,
     isCompleted |-> FALSE]

NoTasks == [err |-> Pending, tasks |-> << >>]

IsVirtualEntry(entry) == entry.layer = LayerVirtual

VirtualEntries(tx) == SelectSeq(tx.entries, IsVirtualEntry)

\* A read of the flows map: the zero value for a key that is absent.
FlowOf(flows, bucketID) == IF bucketID \in DOMAIN flows THEN flows[bucketID] ELSE 0

\* The physical bucket an entry's bucket stands for; NilId when the entry
\* is skipped.
PhysicalBucketOfMut(bucket) ==
    IF bucket.bucketType \in {BucketTypePhysical, BucketTypeVirtual} THEN bucket.id ELSE NilId

PhysicalBucketOf(bucket) ==
    IF bucket.bucketType = BucketTypePhysical THEN bucket.id
    ELSE IF bucket.bucketType = BucketTypeVirtual THEN bucket.parent
    ELSE NilId

\* The first loop: net flow per physical bucket.
RECURSIVE PhysicalBucketFlows(_, _, _)
PhysicalBucketFlows(virtualEntries, i, flows) ==
    IF i > Len(virtualEntries) THEN [err |-> NoError, flows |-> flows]
    ELSE LET entry == virtualEntries[i]
             bucket == GetByID(entry.bucket)
             physicalBucketID == PhysicalBucketOf(bucket)
             currentFlow == FlowOf(flows, physicalBucketID)
         IN  IF bucket.err # NoError THEN [err |-> bucket.err, flows |-> flows]
             ELSE IF bucket.bucketType = BucketTypeVirtual /\ bucket.parent = NilId
             THEN [err |-> ErrVirtualNoParent, flows |-> flows]
             ELSE IF bucket.bucketType \notin {BucketTypePhysical, BucketTypeVirtual}
             THEN PhysicalBucketFlows(virtualEntries, i + 1, flows)
             ELSE IF entry.type = EntryTypeDebit
             THEN PhysicalBucketFlows(virtualEntries, i + 1,
                      MapPut(flows, physicalBucketID, currentFlow + entry.amount))
             ELSE IF entry.type = EntryTypeCredit
             THEN PhysicalBucketFlows(virtualEntries, i + 1,
                      MapPut(flows, physicalBucketID, currentFlow - entry.amount))
             ELSE PhysicalBucketFlows(virtualEntries, i + 1, flows)

IsReceiving(flow) == flow > 0

IsSending(flow) == flow < 0

\* The keys the range over the flows map yields, in that order, that
\* satisfy the test.
RECURSIVE BucketsWhere(_, _, _, _)
BucketsWhere(flows, order, i, receiving) ==
    IF i > Len(order) THEN << >>
    ELSE LET rest == BucketsWhere(flows, order, i + 1, receiving) IN
         IF (receiving /\ IsReceiving(flows[order[i]])) \/ (~receiving /\ IsSending(flows[order[i]]))
         THEN <<order[i]>> \o rest
         ELSE rest

MinFirst(a, b) == a
Min(a, b) == IF a < b THEN a ELSE b

Abs(a) == IF a < 0 THEN 0 - a ELSE a

\* The inner loop for one sending bucket, from the j-th receiving bucket on.
RECURSIVE MatchReceivers(_, _, _, _, _, _, _)
MatchReceivers(txID, fromBucketID, fromAmount, receivingBuckets, j, flows, tasks) ==
    IF j > Len(receivingBuckets) THEN [flows |-> flows, tasks |-> tasks]
    ELSE LET toBucketID == receivingBuckets[j]
             toAmount == flows[toBucketID]
             transferAmount == Min(fromAmount, toAmount)
         IN  IF transferAmount > 0
             THEN IF fromAmount - transferAmount <= 0
                  THEN [flows |-> MapPut(flows, toBucketID, toAmount - transferAmount),
                        tasks |-> Append(tasks, TransferTask(txID, fromBucketID, toBucketID,
                                                             transferAmount))]
                  ELSE MatchReceivers(txID, fromBucketID, fromAmount - transferAmount,
                                      receivingBuckets, j + 1,
                                      MapPut(flows, toBucketID, toAmount - transferAmount),
                                      Append(tasks, TransferTask(txID, fromBucketID, toBucketID,
                                                                 transferAmount)))
             ELSE MatchReceivers(txID, fromBucketID, fromAmount, receivingBuckets, j + 1,
                                 flows, tasks)

\* The outer loop over the sending buckets.
RECURSIVE MatchSenders(_, _, _, _, _, _)
MatchSenders(txID, sendingBuckets, i, receivingBuckets, flows, tasks) ==
    IF i > Len(sendingBuckets) THEN tasks
    ELSE LET matched == MatchReceivers(txID, sendingBuckets[i], Abs(flows[sendingBuckets[i]]),
                                       receivingBuckets, 1, flows, tasks)
         IN  MatchSenders(txID, sendingBuckets, i + 1, receivingBuckets,
                          matched.flows, matched.tasks)

\* GenerateTasks, for each order in which the range over the flows map can
\* yield its keys.
GenerateTasksResults(tx) ==
    LET virtualEntries == VirtualEntries(tx) IN
    IF Len(virtualEntries) = 0 THEN { [err |-> NoError, tasks |-> << >>] }
    ELSE LET physicalBucketFlows == PhysicalBucketFlows(virtualEntries, 1, EmptyMap) IN
         IF physicalBucketFlows.err # NoError
         THEN { [err |-> physicalBucketFlows.err, tasks |-> << >>] }
         ELSE { [err |-> NoError,
                 tasks |-> MatchSenders(tx.id,
                               BucketsWhere(physicalBucketFlows.flows, order, 1, FALSE), 1,
                               BucketsWhere(physicalBucketFlows.flows, order, 1, TRUE),
                               physicalBucketFlows.flows, << >>)] :
                order \in RangeOrders(physicalBucketFlows.flows) }

\* ------------------------------------------------------------------------
\* Persistence (transactionRepository.Create and the balance trigger)
\* ------------------------------------------------------------------------
ErrBeginFailed == "failed to begin transaction"
ErrInsertHeaderFailed == "failed to insert transaction"
ErrInsertEntryFailed == "failed to insert transaction entry"
ErrCommitFailed == "failed to commit transaction"

\* ------------------------------------------------------------------------
\* RPC status of a service error (mapError of the gRPC adapter)
\* ------------------------------------------------------------------------
codesOK == "OK"
codesInvalidArgument == "INVALID_ARGUMENT"
codesNotFound == "NOT_FOUND"
codesUnimplemented == "UNIMPLEMENTED"
codesInternal == "INTERNAL"

\* err.Error(): the text of each error, word by word (up to the text that a
\* wrapped storage error adds after it).
Words(errorMsg) ==
    CASE errorMsg = ErrTotalNotPositive ->
           << "total", "amount", "must", "be", "positive" >>
      [] errorMsg = ErrItemsEmpty ->
           << "items", "list", "cannot", "be", "empty" >>
      [] errorMsg = ErrFixedExceeds ->
           << "FIXED", "amount", "exceeds", "remaining", "balance" >>
      [] errorMsg = ErrNoRemainder ->
           << "no", "REMAINDER", "item", "found" >>
      [] errorMsg = ErrAllocationImbalance ->
           << "total", "allocation", "does", "not", "equal", "total", "amount" >>
      [] errorMsg = ErrNoEntries ->
           << "transaction", "must", "have", "at", "least", "one", "entry" >>
      [] errorMsg = ErrEntryLayer ->
           << "entry", "layer", "must", "be", "PHYSICAL", "or", "VIRTUAL" >>
      [] errorMsg = ErrEntryAmount ->
           << "entry", "amount", "must", "be", "positive", "(absolute", "value)" >>
      [] errorMsg = ErrEntryType ->
           << "entry", "type", "must", "be", "DEBIT", "or", "CREDIT" >>
      [] errorMsg = ErrPhysicalImbalance ->
           << "sum", "of", "debits", "must", "equal", "sum", "of", "credits", "for", "PHYSICAL", "layer" >>
      [] errorMsg = ErrVirtualImbalance ->
           << "sum", "of", "debits", "must", "equal", "sum", "of", "credits", "for", "VIRTUAL", "layer" >>
      [] errorMsg = ErrSplitRuleEmpty ->
           << "split", "rule", "must", "have", "at", "least", "one", "item" >>
      [] errorMsg = ErrSplitRuleItemType ->
           << "split", "rule", "item", "type", "must", "be", "FIXED,", "PERCENT,", "or", "REMAINDER" >>
      [] errorMsg = ErrFixedNotPositive ->
           << "FIXED", "split", "rule", "item", "value", "must", "be", "positive" >>
      [] errorMsg = ErrPercentRange ->
           << "PERCENT", "split", "rule", "item", "value", "must", "be", "between", "0", "and", "100" >>
      [] errorMsg = ErrRemainderCount ->
           << "split", "rule", "must", "have", "exactly", "one", "REMAINDER", "item" >>
      [] errorMsg = ErrBucketNotFound ->
           << "bucket", "not", "found" >>
      [] errorMsg = ErrSplitRuleNotFound ->
           << "split", "rule", "not", "found", "for", "source", "bucket", "ID" >>
      [] errorMsg = ErrSplitRuleNoItems ->
           << "split", "rule", "has", "no", "items" >>
      [] errorMsg = ErrInflowAmount ->
           << "inflow", "amount", "must", "be", "positive" >>
      [] errorMsg = ErrSourceNotIncome ->
           << "source", "bucket", "must", "be", "an", "income", "bucket" >>
      [] errorMsg = ErrInternalNotImplemented ->
           << "internal", "transfer", "inflow", "not", "yet", "implemented" >>
      [] errorMsg = ErrRuleNoItems ->
           << "split", "rule", "must", "have", "at", "least", "one", "item" >>
      [] errorMsg = ErrFirstTargetNotVirtual ->
           << "split", "rule", "target", "buckets", "must", "be", "virtual", "buckets" >>
      [] errorMsg = ErrVirtualNoParent ->
           << "virtual", "bucket", "must", "have", "a", "parent", "physical", "bucket" >>
      [] errorMsg = ErrTargetNotVirtual ->
           << "all", "split", "rule", "target", "buckets", "must", "be", "virtual", "buckets" >>
      [] errorMsg = ErrTargetOtherParent ->
           << "all", "split", "rule", "target", "buckets", "must", "belong", "to", "the", "same", "parent", "physical", "bucket" >>
      [] errorMsg = ErrExpenseAmount ->
           << "expense", "amount", "must", "be", "positive" >>
      [] errorMsg = ErrNotVirtual ->
           << "virtual", "bucket", "ID", "must", "reference", "a", "virtual", "bucket" >>
      [] errorMsg = ErrNotExpense ->
           << "category", "bucket", "ID", "must", "reference", "an", "expense", "bucket" >>
      [] errorMsg = ErrOverrideNotPhysical ->
           << "physical", "override", "bucket", "must", "be", "a", "physical", "bucket" >>
      [] errorMsg = ErrVirtualNoParentID ->
           << "virtual", "bucket", "must", "have", "a", "parent", "physical", "bucket", "ID" >>
      [] errorMsg = ErrBeginFailed ->
           << "failed", "to", "begin", "transaction" >>
      [] errorMsg = ErrInsertHeaderFailed ->
           << "failed", "to", "insert", "transaction" >>
      [] errorMsg = ErrInsertEntryFailed ->
           << "failed", "to", "insert", "transaction", "entry" >>
      [] errorMsg = ErrCommitFailed ->
           << "failed", "to", "commit", "transaction" >>
      [] OTHER -> << >>

\* strings.Contains, for a phrase made of whole words.
Contains(errorMsg, phrase) ==
    \E i \in 1..Len(errorMsg) :
        /\ i + Len(phrase) - 1 <= Len(errorMsg)
        /\ SubSeq(errorMsg, i, i + Len(phrase) - 1) = phrase

mapError(err) ==
    IF err = NoError THEN codesOK
    ELSE LET errorMsg == Words(err) IN
         IF \/ Contains(errorMsg, <<"must", "be", "positive">>)
            \/ Contains(errorMsg, <<"invalid">>)
            \/ Contains(errorMsg, <<"must", "reference">>)
            \/ Contains(errorMsg, <<"must", "have">>)
         THEN codesInvalidArgument
         ELSE IF Contains(errorMsg, <<"not", "found">>)
         THEN codesNotFound
         ELSE codesInternal

Header(tx) ==
    [id |-> tx.id, isInternalTransfer |-> tx.isInternalTransfer,
     isExternalInflow |-> tx.isExternalInflow]

\* Row n of a transaction in transaction_entries; (tx, n) stands for the
\* entry's own identifier.
Row(tx, n) ==
    [tx |-> tx.id, n |-> n, bucket |-> tx.entries[n].bucket, amount |-> tx.entries[n].amount,
     type |-> tx.entries[n].type, layer |-> tx.entries[n].layer]

Rows(tx, count) == { Row(tx, n) : n \in 1..count }

\* update_bucket_balance: the new current_balance of the row's bucket.
UpdateBucketBalanceMut(currentBalance, type, amount) ==
    IF type = EntryTypeDebit THEN currentBalance + amount ELSE currentBalance
UpdateBucketBalanceUnsigned(currentBalance, type, amount) == currentBalance + amount
UpdateBucketBalance(currentBalance, type, amount) ==
    IF type = EntryTypeDebit THEN currentBalance + amount
    ELSE IF type = EntryTypeCredit THEN currentBalance - amount
    ELSE currentBalance

\* The UPDATE of the trigger takes the bucket's row lock, which the open
\* database transaction keeps until it ends: it waits while another open
\* transaction has written the row.
RowLockFreeUnlocked(p, bucket) == TRUE
RowLockFree(p, bucket) == \A q \in Handlers \ {p} : bucket \notin DOMAIN plocal[q]

\* The value the UPDATE reads: the transaction's own write if it made one,
\* the committed row otherwise.
CurrentBalanceSeenBy(p, bucket) ==
    IF bucket \in DOMAIN plocal[p] THEN plocal[p][bucket] ELSE buckets[bucket].currentBalance

\* The loop over tx.Entries has inserted every entry.
AllEntriesInsertedMut(p) == pn[p] >= Len(ptx[p].entries) - 1
AllEntriesInserted(p) == pn[p] = Len(ptx[p].entries)

Request(op, amount, source, isExternal, virtual, category, override) ==
    [op |-> op, amount |-> amount, source |-> source, isExternal |-> isExternal,
     virtual |-> virtual, category |-> category, override |-> override]

NoRequest == Request("", 0, NilId, FALSE, NilId, NilId, NilId)

NoResult == [req |-> NoRequest, err |-> NoError, tx |-> 0, code |-> codesOK]

\* What an RPC handler hands back for a service call that returned err: the
\* status is mapError(err).
Reply(req, err, tx) == [req |-> req, err |-> err, tx |-> tx, code |-> mapError(err)]

\* A service call that returns err without reaching Create.
ReturnError(p, req, err) ==
    /\ result' = [result EXCEPT ![p] = Reply(req, err, 0)]
    /\ pc' = [pc EXCEPT ![p] = "returned"]
    /\ UNCHANGED <<dbvars, nextTxId, ptx, pn, plocal, outcome>>

\* A service call that built and validated tx: Create begins a database
\* transaction (or fails to).
BeginTx(p, req, tx) ==
    /\ nextTxId <= MaxTx
    /\ nextTxId' = nextTxId + 1
    /\ \/ /\ pc' = [pc EXCEPT ![p] = "begun"]
          /\ ptx' = [ptx EXCEPT ![p] = tx]
          /\ result' = [result EXCEPT ![p] =
                            [req |-> req, err |-> Pending, tx |-> tx.id, code |-> Pending]]
          /\ outcome' = Append(outcome, [status |-> "open", tx |-> tx])
       \/ /\ pc' = [pc EXCEPT ![p] = "returned"]
          /\ result' = [result EXCEPT ![p] = Reply(req, ErrBeginFailed, tx.id)]
          /\ outcome' = Append(outcome, [status |-> "aborted", tx |-> tx])
          /\ UNCHANGED ptx
    /\ UNCHANGED <<dbvars, pn, plocal>>

InflowRequests ==
    { Request("RecordInflow", amount, source, isExternal, NilId, NilId, NilId) :
        amount \in {0, Dec(1), Dec(2)},
        source \in {"Employer", "Freelance", "Groceries", MissingId},
        isExternal \in BOOLEAN }

ExpenseRequests ==
    { Request("LogExpense", amount, NilId, FALSE, virtual, category, override) :
        amount \in {0, Dec(1)},
        virtual \in {"FreeCash", "Rewards", "Checking", MissingId},
        category \in {"Groceries", "Employer"},
        override \in {NilId, "CreditCard", "Checking", "Vault"} }

\* The requests of the concurrent specification: the postings that contend
\* for the same bucket rows, and one rejected request of each kind.
ConcurrentInflowRequests ==
    { Request("RecordInflow", amount, "Employer", TRUE, NilId, NilId, NilId) :
        amount \in {0, Dec(1), Dec(2)} }

ConcurrentExpenseRequests ==
    { Request("LogExpense", amount, NilId, FALSE, "FreeCash", "Groceries", override) :
        amount \in {0, Dec(1)}, override \in {NilId, "CreditCard"} }

RecordInflow(p, requests) ==
    /\ pc[p] = "idle"
    /\ \E req \in requests :
       \E o \in RecordInflowOutcomes(req.amount, req.source, req.isExternal) :
          IF o.err # NoError THEN ReturnError(p, req, o.err) ELSE BeginTx(p, req, o.tx)
    /\ UNCHANGED avars

LogExpense(p, requests) ==
    /\ pc[p] = "idle"
    /\ \E req \in requests :
          LET o == LogExpenseOutcome(req.amount, req.virtual, req.category, req.override) IN
          IF o.err # NoError THEN ReturnError(p, req, o.err) ELSE BeginTx(p, req, o.tx)
    /\ UNCHANGED avars

\* INSERT INTO transactions, inside the open database transaction.
ExecInsertHeaderAutocommit(p) == transactions' = transactions \cup {Header(ptx[p])}
ExecInsertHeader(p) == UNCHANGED transactions

InsertHeader(p) ==
    /\ pc[p] = "begun"
    /\ pc' = [pc EXCEPT ![p] = "entries"]
    /\ ExecInsertHeader(p)
    /\ UNCHANGED <<avars, buckets, splitRules, entries, marketValueHistory, nextTxId, ptx, pn, plocal,
                 result, outcome>>

\* INSERT INTO transaction_entries for the next entry of the loop; the
\* trigger updates the bucket row in the same statement.
InsertEntry(p) ==
    /\ pc[p] = "entries"
    /\ ~AllEntriesInserted(p)
    /\ pn[p] < Len(ptx[p].entries)
    /\ LET entry == ptx[p].entries[pn[p] + 1] IN
       /\ entry.bucket \in DOMAIN buckets
       /\ RowLockFree(p, entry.bucket)
       /\ plocal' = [plocal EXCEPT ![p] =
              MapPut(plocal[p], entry.bucket,
                     UpdateBucketBalance(CurrentBalanceSeenBy(p, entry.bucket),
                                         entry.type, entry.amount))]
    /\ pn' = [pn EXCEPT ![p] = pn[p] + 1]
    /\ UNCHANGED <<avars, dbvars, nextTxId, pc, ptx, result, outcome>>

\* dbTx.Commit(): the header, the inserted rows and the bucket rows written
\* by the trigger become visible together.
Commit(p) ==
    /\ pc[p] = "entries"
    /\ AllEntriesInserted(p)
    /\ transactions' = transactions \cup {Header(ptx[p])}
    /\ entries' = entries \cup Rows(ptx[p], pn[p])
    /\ buckets' = [b \in DOMAIN buckets |->
                     IF b \in DOMAIN plocal[p]
                     THEN [buckets[b] EXCEPT !.currentBalance = plocal[p][b]]
                     ELSE buckets[b]]
    /\ outcome' = [outcome EXCEPT ![ptx[p].id].status = "committed"]
    /\ result' = [result EXCEPT ![p] = Reply(result[p].req, NoError, result[p].tx)]
    /\ pc' = [pc EXCEPT ![p] = "returned"]
    /\ ptx' = [ptx EXCEPT ![p] = NoTx]
    /\ pn' = [pn EXCEPT ![p] = 0]
    /\ plocal' = [plocal EXCEPT ![p] = EmptyMap]
    /\ UNCHANGED <<avars, splitRules, marketValueHistory, nextTxId>>

\* Any statement of Create, or the commit, fails or is cancelled: Create
\* returns the error and the deferred dbTx.Rollback() discards every write.
Rollback(p) ==
    /\ pc[p] \in {"begun", "entries"}
    /\ result' = [result EXCEPT ![p] =
                    Reply(result[p].req,
                          IF pc[p] = "begun" THEN ErrInsertHeaderFailed
                          ELSE IF pn[p] < Len(ptx[p].entries) THEN ErrInsertEntryFailed
                          ELSE ErrCommitFailed,
                          result[p].tx)]
    /\ outcome' = [outcome EXCEPT ![ptx[p].id].status = "aborted"]
    /\ pc' = [pc EXCEPT ![p] = "returned"]
    /\ ptx' = [ptx EXCEPT ![p] = NoTx]
    /\ pn' = [pn EXCEPT ![p] = 0]
    /\ plocal' = [plocal EXCEPT ![p] = EmptyMap]
    /\ UNCHANGED <<avars, dbvars, nextTxId>>

\* The handler has returned to its caller; it is free for the next request.
Respond(p) ==
    /\ pc[p] = "returned"
    /\ pc' = [pc EXCEPT ![p] = "idle"]
    /\ result' = [result EXCEPT ![p] = NoResult]
    /\ UNCHANGED <<avars, dbvars, nextTxId, ptx, pn, plocal, outcome>>

\* ------------------------------------------------------------------------
\* Investment service (InvestmentService.UpdateMarketValue)
\* ------------------------------------------------------------------------
ErrMarketValue == "market value must be positive"
ErrAddFailed == "failed to insert market value history entry"

MarketValueHistory(bucketID, date, marketValue) ==
    [bucketID |-> bucketID, date |-> date, marketValue |-> marketValue]

\* time.Now(): the wall clock is read anew for each point; two reads can
\* give the same TIMESTAMP value, and a later read an earlier one.
ClockReadings == {1, 2}

MarketValueRequest(bucketID, amount) ==
    [op |-> "UpdateMarketValue", bucketID |-> bucketID, amount |-> amount]

MarketValueRequests ==
    { MarketValueRequest(bucketID, amount) :
        bucketID \in {"Tesla", "Checking", MissingId}, amount \in {0, Dec(1)} }

\* marketValueRepository.Add: one INSERT INTO market_value_history.
AddTwice(history, entry) == Append(Append(history, entry), entry)
Add(history, entry) == Append(history, entry)

\* What UpdateMarketValue returns before MarketValueRepo.Add runs.
UpdateMarketValueCheck(bucketID, amount) ==
    IF amount <= 0 THEN ErrMarketValue
    ELSE GetByID(bucketID).err

UpdateMarketValue(p, requests) ==
    /\ pc[p] = "idle"
    /\ \E req \in requests :
          LET err == UpdateMarketValueCheck(req.bucketID, req.amount) IN
          \/ /\ err # NoError
             /\ result' = [result EXCEPT ![p] = [req |-> req, err |-> err, tx |-> 0]]
             /\ UNCHANGED marketValueHistory
          \/ /\ err = NoError
             /\ Len(marketValueHistory) < MaxPoints
             /\ \E date \in ClockReadings :
                   marketValueHistory' =
                       Add(marketValueHistory,
                           MarketValueHistory(req.bucketID, date, req.amount))
             /\ result' = [result EXCEPT ![p] = [req |-> req, err |-> NoError, tx |-> 0]]
          \/ /\ err = NoError
             /\ result' = [result EXCEPT ![p] = [req |-> req, err |-> ErrAddFailed, tx |-> 0]]
             /\ UNCHANGED marketValueHistory
    /\ pc' = [pc EXCEPT ![p] = "returned"]
    /\ UNCHANGED <<avars, buckets, splitRules, transactions, entries, nextTxId, ptx, pn, plocal,
                   outcome>>

\* ------------------------------------------------------------------------
\* Dashboard service (DashboardService.GetNetWorth)
\* ------------------------------------------------------------------------
ErrNoMarketValue == "no market value history found for bucket"

\* BucketRepository.List: the buckets of the given type (all buckets for
\* the empty filter).
List(typeFilter) ==
    { b \in DOMAIN buckets : typeFilter = "" \/ buckets[b].bucketType = typeFilter }

\* marketValueRepository.GetLatest: ORDER BY date DESC LIMIT 1 returns a row
\* of the bucket with the greatest date, any of them when several have it.
GetLatestOldest(bucketID) ==
    LET rows == { i \in 1..Len(marketValueHistory) :
                    marketValueHistory[i].bucketID = bucketID }
    IN  IF rows = {}
        THEN { [err |-> ErrNoMarketValue, entry |-> MarketValueHistory(bucketID, 0, 0)] }
        ELSE { [err |-> NoError, entry |-> marketValueHistory[i]] :
                 i \in { j \in rows : \A k \in rows :
                            marketValueHistory[j].date <= marketValueHistory[k].date } }

GetLatest(bucketID) ==
    LET rows == { i \in 1..Len(marketValueHistory) :
                    marketValueHistory[i].bucketID = bucketID }
    IN  IF rows = {}
        THEN { [err |-> ErrNoMarketValue, entry |-> MarketValueHistory(bucketID, 0, 0)] }
        ELSE { [err |-> NoError, entry |-> marketValueHistory[i]] :
                 i \in { j \in rows : \A k \in rows :
                            marketValueHistory[k].date <= marketValueHistory[j].date } }

\* for _, bucket := range physicalBuckets { liquidity = liquidity.Add(...) }
RECURSIVE SumCurrentBalance(_)
SumCurrentBalance(bucketIDs) ==
    IF bucketIDs = {} THEN 0
    ELSE LET b == CHOOSE x \in bucketIDs : TRUE IN
         buckets[b].currentBalance + SumCurrentBalance(bucketIDs \ {b})

\* The loop over the EQUITY buckets: a bucket whose GetLatest returns an
\* error is skipped.  The set of sums the loop can end with.
RECURSIVE SumLatestMarketValue(_)
SumLatestMarketValue(bucketIDs) ==
    IF bucketIDs = {} THEN {0}
    ELSE LET b == CHOOSE x \in bucketIDs : TRUE IN
         { IF marketValueEntry.err # NoError THEN rest
           ELSE rest + marketValueEntry.entry.marketValue :
             marketValueEntry \in GetLatest(b),
             rest \in SumLatestMarketValue(bucketIDs \ {b}) }

NetWorthResult(total, liquidity, equity) ==
    [total |-> total, liquidity |-> liquidity, equity |-> equity]

NetWorthRequest == [op |-> "GetNetWorth"]

\* Every result GetNetWorth can return in the current state.
GetNetWorthResults ==
    LET liquidity == SumCurrentBalance(List(BucketTypePhysical)) IN
    { NetWorthResult(liquidity + equity, liquidity, equity) :
        equity \in SumLatestMarketValue(List(BucketTypeEquity)) }

GetNetWorth(p) ==
    /\ pc[p] = "idle"
    /\ \E netWorth \in GetNetWorthResults :
          result' = [result EXCEPT ![p] = [req |-> NetWorthRequest, err |-> NoError, tx |-> 0,
                                           netWorth |-> netWorth]]
    /\ pc' = [pc EXCEPT ![p] = "returned"]
    /\ UNCHANGED <<avars, dbvars, nextTxId, ptx, pn, plocal, outcome>>

\* ------------------------------------------------------------------------
\* Bucket validation and the system seeder (Bucket.Validate,
\* SystemSeeder.Seed)
\* ------------------------------------------------------------------------
ErrBucketName == "bucket name cannot be empty"
ErrCreateBucket == "failed to create bucket"

Bucket(id, name, bucketType, parent, currentBalance) ==
    [id |-> id, name |-> name, bucketType |-> bucketType, parent |-> parent,
     currentBalance |-> currentBalance]

\* Bucket.Validate
BucketValidate(b) ==
    IF b.name = "" THEN ErrBucketName
    ELSE IF b.bucketType = BucketTypeVirtual /\ b.parent = NilId THEN ErrVirtualNoParentID
    ELSE NoError

BucketTypes ==
    { BucketTypePhysical, BucketTypeVirtual, BucketTypeIncome, BucketTypeExpense,
      BucketTypeEquity, BucketTypeSystem }

\* The buckets handed to Validate: with and without a name, of every type,
\* with and without a parent reference.
BucketInputs ==
    { Bucket("New", name, bucketType, parent, 0) :
        name \in {"", "Savings"}, bucketType \in BucketTypes, parent \in {NilId, "Checking"} }

ValidateRequest(bucket) == [op |-> "Validate", bucket |-> bucket]

\* A caller builds a bucket and validates it.
ValidateBucket(p) ==
    /\ pc[p] = "idle"
    /\ \E bucket \in BucketInputs :
          result' = [result EXCEPT ![p] =
                        [req |-> ValidateRequest(bucket), err |-> BucketValidate(bucket),
                         tx |-> 0]]
    /\ pc' = [pc EXCEPT ![p] = "returned"]
    /\ UNCHANGED <<avars, dbvars, nextTxId, ptx, pn, plocal, outcome>>

SYS_VIRTUAL_CLEARING == "SysVirtualClearing"
SYS_LOST_MISC == "SysLostMisc"
SYS_EXTRA_INCOME == "SysExtraIncome"

SystemBucket(id, name, bucketType) == [id |-> id, name |-> name, bucketType |-> bucketType]

systemBuckets ==
    << SystemBucket(SYS_VIRTUAL_CLEARING, "System Virtual Clearing", BucketTypeSystem),
       SystemBucket(SYS_LOST_MISC, "System Lost/Misc", BucketTypeSystem),
       SystemBucket(SYS_EXTRA_INCOME, "System Extra Income", BucketTypeSystem) >>

\* The seeder's test for a bucket being there: GetByID returns no error.
BucketExistsNever(table, id) == FALSE
BucketExists(table, id) == id \in DOMAIN table

\* bucketRepository.Create: one INSERT INTO buckets; id is the primary key.
CreateBucket(table, bucket) ==
    IF bucket.id \in DOMAIN table
    THEN [err |-> ErrCreateBucket, buckets |-> table]
    ELSE [err |-> NoError,
          buckets |-> MapPut(table, bucket.id,
                             [bucketType |-> bucket.bucketType, parent |-> bucket.parent,
                              currentBalance |-> bucket.currentBalance])]

\* The loop of Seed from the i-th system bucket on, table being the buckets
\* table as the loop has left it: every way it can end.  An INSERT can fail.
RECURSIVE SeedFrom(_, _)
SeedFrom(table, i) ==
    IF i > Len(systemBuckets) THEN { [err |-> NoError, buckets |-> table] }
    ELSE LET sysBucket == systemBuckets[i]
             bucket == Bucket(sysBucket.id, sysBucket.name, sysBucket.bucketType, NilId, 0)
             created == CreateBucket(table, bucket)
         IN  IF BucketExists(table, sysBucket.id) THEN SeedFrom(table, i + 1)
             ELSE IF BucketValidate(bucket) # NoError
             THEN { [err |-> BucketValidate(bucket), buckets |-> table] }
             ELSE IF created.err # NoError
             THEN { [err |-> created.err, buckets |-> table] }
             ELSE { [err |-> ErrCreateBucket, buckets |-> table] }
                  \cup SeedFrom(created.buckets, i + 1)

SeedRequest == [op |-> "Seed"]

\* SystemSeeder.Seed, run by the server process when it starts.
Seed(p) ==
    /\ pc[p] = "idle"
    /\ \E o \in SeedFrom(buckets, 1) :
          /\ buckets' = o.buckets
          /\ result' = [result EXCEPT ![p] = [req |-> SeedRequest, err |-> o.err, tx |-> 0]]
    /\ pc' = [pc EXCEPT ![p] = "returned"]
    /\ UNCHANGED <<avars, splitRules, transactions, entries, marketValueHistory, nextTxId,
                   ptx, pn, plocal, outcome>>

\* ------------------------------------------------------------------------
\* Specifications
\* ------------------------------------------------------------------------
Item(target, type, value, priority) ==
    [target |-> target, type |-> type, value |-> value, priority |-> priority]

\* Split rules stored for the income bucket Employer.
PercentThenRemainder ==
    << Item("Vault", SplitRuleItemTypeRemainder, 0, 2),
       Item("FreeCash", SplitRuleItemTypePercent, 60, 1) >>

LedgerRules ==
    { << Item("Vault", SplitRuleItemTypeFixed, Dec(1), 1),
         Item("FreeCash", SplitRuleItemTypePercent, 60, 2),
         Item("Emergency", SplitRuleItemTypeRemainder, 0, 3) >>,
      PercentThenRemainder,
      << Item("FreeCash", SplitRuleItemTypePercent, 60, 1),
         Item("Rewards", SplitRuleItemTypeRemainder, 0, 2) >> }

InitHandlers ==
    /\ nextTxId = 1
    /\ pc = [p \in Handlers |-> "idle"]
    /\ ptx = [p \in Handlers |-> NoTx]
    /\ pn = [p \in Handlers |-> 0]
    /\ plocal = [p \in Handlers |-> EmptyMap]
    /\ result = [p \in Handlers |-> NoResult]
    /\ outcome = << >>

InitStorage ==
    /\ transactions = {}
    /\ entries = {}
    /\ marketValueHistory = << >>
    /\ InitHandlers

InitLedger ==
    /\ buckets = BucketFixture
    /\ InitStorage

InitGeneratorIdle ==
    /\ gTx = NoTx
    /\ gTasks = NoTasks

InitAllocatorIdle ==
    /\ aTotal = 0
    /\ aItems = << >>
    /\ aFirst = PendingResult
    /\ aSecond = PendingResult

InitHarnessIdle ==
    /\ InitAllocatorIdle
    /\ InitGeneratorIdle

Init ==
    /\ InitHarnessIdle
    /\ InitLedger
    /\ \E rule \in LedgerRules : splitRules = [b \in {"Employer"} |-> rule]

Next ==
    \E p \in {"h1"} :
        \/ RecordInflow(p, InflowRequests)
        \/ LogExpense(p, ExpenseRequests)
        \/ InsertHeader(p)
        \/ InsertEntry(p)
        \/ Commit(p)
        \/ Rollback(p)
        \/ Respond(p)

Spec == Init /\ [][Next]_vars

\* Two request handlers run in parallel against the same storage.
NextConcurrent ==
    \E p \in Handlers :
        \/ RecordInflow(p, ConcurrentInflowRequests)
        \/ LogExpense(p, ConcurrentExpenseRequests)
        \/ InsertHeader(p)
        \/ InsertEntry(p)
        \/ Commit(p)
        \/ Rollback(p)
        \/ Respond(p)

InitConcurrent ==
    /\ InitHarnessIdle
    /\ InitLedger
    /\ splitRules = [b \in {"Employer"} |-> PercentThenRemainder]

SpecConcurrent == InitConcurrent /\ [][NextConcurrent]_vars

\* The expense service alone.
NextExpense ==
    \E p \in {"h1"} :
        \/ LogExpense(p, ExpenseRequests)
        \/ InsertHeader(p)
        \/ InsertEntry(p)
        \/ Commit(p)
        \/ Rollback(p)
        \/ Respond(p)

SpecExpense == InitConcurrent /\ [][NextExpense]_vars

\* The inflow service alone, against every kind of rule the split_rules and
\* split_rule_items tables can hold for Employer: the schema constrains
\* neither the item kinds and values nor the type of the target buckets.
TwoRemainders ==
    << Item("Vault", SplitRuleItemTypeRemainder, 0, 1),
       Item("Rewards", SplitRuleItemTypeRemainder, 0, 2) >>

StoredRules ==
    LedgerRules \cup
    { TwoRemainders,
      << >>,
      << Item("FreeCash", SplitRuleItemTypePercent, 60, 1) >>,
      << Item("FreeCash", SplitRuleItemTypePercent, 60, 1),
         Item("Checking", SplitRuleItemTypeRemainder, 0, 2) >>,
      << Item("Checking", SplitRuleItemTypePercent, 60, 1),
         Item("Vault", SplitRuleItemTypeRemainder, 0, 2) >>,
      << Item("Vault", SplitRuleItemTypeFixed, Dec(2), 1),
         Item("Rewards", SplitRuleItemTypeRemainder, 0, 2) >>,
      << Item("Vault", SplitRuleItemTypeFixed, 0, 1),
         Item("Vault", SplitRuleItemTypeRemainder, 0, 2) >>,
      << Item("FreeCash", SplitRuleItemTypePercent, 150, 1),
         Item("Vault", SplitRuleItemTypeRemainder, 0, 2) >> }

InitInflow ==
    /\ InitHarnessIdle
    /\ InitLedger
    /\ \E rule \in StoredRules : splitRules = [b \in {"Employer"} |-> rule]

NextInflow ==
    \E p \in {"h1"} :
        \/ RecordInflow(p, InflowRequests)
        \/ InsertHeader(p)
        \/ InsertEntry(p)
        \/ Commit(p)
        \/ Rollback(p)
        \/ Respond(p)

SpecInflow == InitInflow /\ [][NextInflow]_vars

\* The inflow service with split rules whose allocation gives some target
\* nothing or less: a PERCENT item of value 0, FIXED and PERCENT items that
\* consume the whole inflow, a PERCENT item above 100, the same with a
\* target outside the first target's physical bucket, and a rule whose
\* amounts are all positive.
ZeroAllocationRules ==
    { << Item("FreeCash", SplitRuleItemTypePercent, 0, 1),
         Item("Vault", SplitRuleItemTypeRemainder, 0, 2) >>,
      << Item("Vault", SplitRuleItemTypeFixed, Dec(1), 1),
         Item("FreeCash", SplitRuleItemTypePercent, Hundred, 2),
         Item("Emergency", SplitRuleItemTypeRemainder, 0, 3) >>,
      << Item("Vault", SplitRuleItemTypeFixed, Dec(2), 1),
         Item("Emergency", SplitRuleItemTypeRemainder, 0, 2) >>,
      << Item("FreeCash", SplitRuleItemTypePercent, 150, 1),
         Item("Vault", SplitRuleItemTypeRemainder, 0, 2) >>,
      << Item("Vault", SplitRuleItemTypeFixed, Dec(2), 1),
         Item("Rewards", SplitRuleItemTypeRemainder, 0, 2) >>,
      << Item("Checking", SplitRuleItemTypePercent, 0, 1),
         Item("Vault", SplitRuleItemTypeRemainder, 0, 2) >>,
      PercentThenRemainder }

InitZeroAllocation ==
    /\ InitHarnessIdle
    /\ InitLedger
    /\ \E rule \in ZeroAllocationRules : splitRules = [b \in {"Employer"} |-> rule]

SpecZeroAllocation == InitZeroAllocation /\ [][NextInflow]_vars

\* The investment service next to the posting services, with an EQUITY
\* bucket among the buckets.
InvestmentBucketFixture ==
    BucketFixture @@
    [b \in {"Tesla"} |-> [bucketType |-> BucketTypeEquity, parent |-> NilId, currentBalance |-> 0]]

\* One posting of each kind, for the specifications whose subject is not the
\* posting services.
OneInflowRequest ==
    { Request("RecordInflow", Dec(2), "Employer", TRUE, NilId, NilId, NilId) }

OneExpenseRequest ==
    { Request("LogExpense", Dec(1), NilId, FALSE, "FreeCash", "Groceries", "CreditCard") }

InitInvestment ==
    /\ InitHarnessIdle
    /\ buckets = InvestmentBucketFixture
    /\ InitStorage
    /\ splitRules = [b \in {"Employer"} |-> PercentThenRemainder]

NextInvestment ==
    \E p \in {"h1"} :
        \/ UpdateMarketValue(p, MarketValueRequests)
        \/ RecordInflow(p, OneInflowRequest)
        \/ LogExpense(p, OneExpenseRequest)
        \/ InsertHeader(p)
        \/ InsertEntry(p)
        \/ Commit(p)
        \/ Rollback(p)
        \/ Respond(p)

SpecInvestment == InitInvestment /\ [][NextInvestment]_vars

\* ------------------------------------------------------------------------
\* Authentication interceptor (AuthInterceptor)
\* ------------------------------------------------------------------------
validToken == "dev-token"
codesUnauthenticated == "UNAUTHENTICATED"
ErrMissingMetadata == "missing metadata"
ErrMissingAuthorization == "missing authorization header"
ErrInvalidToken == "invalid token"

\* The metadata of an incoming call: absent, or present with the values of
\* its "authorization" key in the order they were sent.
NoMetadata == [ok |-> FALSE, authorization |-> << >>]
Metadata(authorization) == [ok |-> TRUE, authorization |-> authorization]

IncomingMetadata ==
    { NoMetadata, Metadata(<< >>), Metadata(<<"other-token">>), Metadata(<<validToken>>),
      Metadata(<<"other-token", validToken>>),
      Metadata(<<validToken, "other-token">>) }

\* A variant that looks for the token among all the authorization values.
AuthCheckAnyValue(md) ==
    IF ~md.ok THEN ErrMissingMetadata
    ELSE IF Len(md.authorization) = 0 THEN ErrMissingAuthorization
    ELSE IF \A i \in 1..Len(md.authorization) : md.authorization[i] # validToken
         THEN ErrInvalidToken
    ELSE NoError

\* The error the interceptor returns instead of calling the handler, or
\* NoError when it calls the handler: only the first value is compared.
AuthCheck(md) ==
    IF ~md.ok THEN ErrMissingMetadata
    ELSE IF Len(md.authorization) = 0 THEN ErrMissingAuthorization
    ELSE IF md.authorization[1] # validToken THEN ErrInvalidToken
    ELSE NoError

\* The requests of a set, each arriving with the metadata md.
Incoming(requests, md) == { [md |-> md] @@ req : req \in requests }

\* One request of each state-changing RPC.
OneMarketValueRequest == { r \in MarketValueRequests : r.bucketID = "Tesla" /\ r.amount = Dec(1) }
AuthRequests == OneInflowRequest \cup OneExpenseRequest \cup OneMarketValueRequest

\* handler(ctx, req) for the state-changing RPCs.
Handler(p, md) ==
    \/ RecordInflow(p, Incoming(OneInflowRequest, md))
    \/ LogExpense(p, Incoming(OneExpenseRequest, md))
    \/ UpdateMarketValue(p, Incoming(OneMarketValueRequest, md))

Unauthenticated(p, md) ==
    /\ pc[p] = "idle"
    /\ \E req \in Incoming(AuthRequests, md) :
          result' = [result EXCEPT ![p] =
                        [req |-> req, err |-> AuthCheck(md), tx |-> 0,
                         code |-> codesUnauthenticated]]
    /\ pc' = [pc EXCEPT ![p] = "returned"]
    /\ UNCHANGED <<avars, dbvars, nextTxId, ptx, pn, plocal, outcome>>

AuthInterceptor(p) ==
    \E md \in IncomingMetadata :
        IF AuthCheck(md) # NoError THEN Unauthenticated(p, md) ELSE Handler(p, md)

\* Every state-changing RPC behind the interceptor.
NextAuth ==
    \E p \in {"h1"} :
        \/ AuthInterceptor(p)
        \/ InsertHeader(p)
        \/ InsertEntry(p)
        \/ Commit(p)
        \/ Rollback(p)
        \/ Respond(p)

SpecAuth == InitInvestment /\ [][NextAuth]_vars

\* The dashboard next to the services that change what it reads: two
\* EQUITY buckets, a SYSTEM bucket, postings that move the balances of both
\* PHYSICAL buckets, and market-value points for EQUITY and other buckets.
NetWorthBucketFixture ==
    InvestmentBucketFixture @@
    [b \in {"Bonds", "Unallocated"} |->
        [bucketType |-> IF b = "Bonds" THEN BucketTypeEquity ELSE BucketTypeSystem,
         parent |-> NilId, currentBalance |-> 0]]

NetWorthMarketValueRequests ==
    { MarketValueRequest("Tesla", amount) : amount \in {0, Dec(1), Dec(2)} }
    \cup { MarketValueRequest(bucketID, Dec(1)) : bucketID \in {"Bonds", "Checking"} }

InitNetWorth ==
    /\ InitHarnessIdle
    /\ buckets = NetWorthBucketFixture
    /\ InitStorage
    /\ splitRules = [b \in {"Employer"} |-> PercentThenRemainder]

NextNetWorth ==
    \E p \in {"h1"} :
        \/ GetNetWorth(p)
        \/ UpdateMarketValue(p, NetWorthMarketValueRequests)
        \/ RecordInflow(p, OneInflowRequest)
        \/ LogExpense(p, OneExpenseRequest)
        \/ InsertHeader(p)
        \/ InsertEntry(p)
        \/ Commit(p)
        \/ Rollback(p)
        \/ Respond(p)

SpecNetWorth == InitNetWorth /\ [][NextNetWorth]_vars

\* The seeder, run any number of times (each start of the server runs it)
\* between postings, from a buckets table without system buckets.
NextSeeder ==
    \E p \in {"h1"} :
        \/ Seed(p)
        \/ RecordInflow(p, OneInflowRequest)
        \/ LogExpense(p, OneExpenseRequest)
        \/ InsertHeader(p)
        \/ InsertEntry(p)
        \/ Commit(p)
        \/ Rollback(p)
        \/ Respond(p)

SpecSeeder == InitConcurrent /\ [][NextSeeder]_vars

\* Bucket validation alone, by two callers.
NextBucket ==
    \E p \in Handlers :
        \/ ValidateBucket(p)
        \/ Respond(p)

SpecBucket == InitConcurrent /\ [][NextBucket]_vars

\* The transfer-task generator, applied once to a transaction: either one
\* built by a posting service or any sequence of up to MaxEntries entries
\* over three physical accounts and their envelopes.
TaskBucketFixture ==
    BucketFixture @@
    [b \in {"Broker", "Fund"} |->
        IF b = "Broker"
        THEN [bucketType |-> BucketTypePhysical, parent |-> NilId, currentBalance |-> 0]
        ELSE [bucketType |-> BucketTypeVirtual, parent |-> "Broker", currentBalance |-> 0]]

GeneratorEntries ==
    { Entry(bucket, amount, type, LayerVirtual) :
        bucket \in {"FreeCash", "Rewards", "Fund", "Checking", "Groceries"},
        amount \in {Dec(1), Dec(2)},
        type \in {EntryTypeDebit, EntryTypeCredit} }
    \cup { Entry("CreditCard", Dec(1), EntryTypeCredit, LayerPhysical),
           Entry("Checking", Dec(1), EntryTypeDebit, LayerPhysical) }

PostedByServices ==
    { LogExpenseOutcome(req.amount, req.virtual, req.category, req.override).tx :
        req \in { r \in ExpenseRequests :
                    LogExpenseOutcome(r.amount, r.virtual, r.category, r.override).err = NoError } }
    \cup { o.tx : o \in { x \in RecordInflowOutcomes(Dec(1), "Employer", TRUE) : x.err = NoError } }

GeneratorInputs ==
    PostedByServices
    \cup { [id |-> 1, isInternalTransfer |-> TRUE, isExternalInflow |-> FALSE, entries |-> es] :
             es \in UNION { [1..n -> GeneratorEntries] : n \in 0..MaxEntries } }

InitTasks ==
    /\ InitAllocatorIdle
    /\ buckets = TaskBucketFixture
    /\ InitStorage
    /\ splitRules = [b \in {"Employer"} |-> PercentThenRemainder]
    /\ gTx \in GeneratorInputs
    /\ gTasks = NoTasks

Generate ==
    /\ gTasks.err = Pending
    /\ gTasks' \in GenerateTasksResults(gTx)
    /\ UNCHANGED <<aTotal, aItems, aFirst, aSecond, gTx, lvars>>

SpecTasks == InitTasks /\ [][Generate]_vars

AllocInit ==
    /\ aTotal \in AllocTotals
    /\ aItems \in AllocItemLists
    /\ aFirst = PendingResult
    /\ aSecond = PendingResult
    /\ InitGeneratorIdle
    /\ InitLedger
    /\ splitRules = << >>

FirstCall ==
    /\ aFirst.err = Pending
    /\ aFirst' \in CalculateAllocationResults(aTotal, aItems)
    /\ UNCHANGED <<aTotal, aItems, aSecond, gTx, gTasks, lvars>>

SecondCall ==
    /\ aFirst.err # Pending
    /\ aSecond.err = Pending
    /\ aSecond' \in CalculateAllocationResults(aTotal, aItems)
    /\ UNCHANGED <<aTotal, aItems, aFirst, gTx, gTasks, lvars>>

AllocNext == FirstCall \/ SecondCall

SpecAlloc == AllocInit /\ [][AllocNext]_vars

\* ------------------------------------------------------------------------
\* Properties of the allocation engine (checked under SpecAlloc)
\* ------------------------------------------------------------------------
RECURSIVE SumFn(_, _)
SumFn(f, S) ==
    IF S = {} THEN 0
    ELSE LET x == CHOOSE y \in S : TRUE IN f[x] + SumFn(f, S \ {x})

MapTotal(m) == SumFn(m, DOMAIN m)

ItemsOfType(items, type) == { i \in 1..Len(items) : items[i].type = type }

ValueSum(items, S) == SumFn([i \in 1..Len(items) |-> items[i].value], S)

DistinctTargets(items) ==
    \A i, j \in 1..Len(items) : i # j => items[i].target # items[j].target

\* Item j is processed before item i: lower priority first, input order on ties.
ProcessedBefore(items, j, i) ==
    \/ items[j].priority < items[i].priority
    \/ items[j].priority = items[i].priority /\ j < i

FixedBefore(items, i) ==
    { j \in ItemsOfType(items, SplitRuleItemTypeFixed) : ProcessedBefore(items, j, i) }

\* The items in processing order, stated without reference to the sort.
StableOrder(items) ==
    CHOOSE s \in [1..Len(items) -> 1..Len(items)] :
        /\ \A i, j \in 1..Len(items) : i # j => s[i] # s[j]
        /\ \A i, j \in 1..Len(items) : i < j => ProcessedBefore(items, s[i], s[j])

FirstDone == aFirst.err # Pending

\* C5 (allocation totality): the amounts of a successful allocation sum to
\* the total exactly, for any mix of FIXED, PERCENT and REMAINDER items.
C5_AllocationTotality ==
    aFirst.err = NoError => MapTotal(aFirst.allocation) = aTotal

C5_Witness ==
    /\ aFirst.err = NoError
    /\ \A t \in {SplitRuleItemTypeFixed, SplitRuleItemTypePercent, SplitRuleItemTypeRemainder} :
          ItemsOfType(aItems, t) # {}
    /\ Cardinality(DOMAIN aFirst.allocation) = 3

\* C6 (as claimed): a successful allocation never assigns a negative amount
\* to the REMAINDER target; a negative remainder fails with the overflow
\* error instead.
C6_RemainderNeverNegative ==
    aFirst.err = NoError =>
        \A i \in ItemsOfType(aItems, SplitRuleItemTypeRemainder) :
            aItems[i].target \in DOMAIN aFirst.allocation =>
                aFirst.allocation[aItems[i].target] >= 0

\* C7: with distinct targets and exactly one REMAINDER, a successful
\* allocation gives every FIXED item its value, every PERCENT item
\* (total - sum of FIXED values) * value / 100, and the REMAINDER item the
\* total minus all other assigned amounts.
C7_Precondition ==
    /\ aTotal > 0
    /\ DistinctTargets(aItems)
    /\ Cardinality(ItemsOfType(aItems, SplitRuleItemTypeRemainder)) = 1
    /\ aFirst.err = NoError

C7_AllocationFormula ==
    C7_Precondition =>
        LET alloc == aFirst.allocation
            base == aTotal - ValueSum(aItems, ItemsOfType(aItems, SplitRuleItemTypeFixed))
        IN  /\ DOMAIN alloc = { aItems[i].target : i \in 1..Len(aItems) }
            /\ \A i \in 1..Len(aItems) :
                  LET it == aItems[i] IN
                  /\ it.type = SplitRuleItemTypeFixed => alloc[it.target] = it.value
                  /\ it.type = SplitRuleItemTypePercent =>
                        alloc[it.target] * Hundred = base * it.value
                  /\ it.type = SplitRuleItemTypeRemainder =>
                        alloc[it.target] = aTotal - SumFn(alloc, (DOMAIN alloc) \ {it.target})

C7_Witness ==
    /\ C7_Precondition
    /\ Cardinality(ItemsOfType(aItems, SplitRuleItemTypePercent)) = 2
    /\ \A t \in DOMAIN aFirst.allocation : aFirst.allocation[t] # 0

\* C8: the engine fails with the FIXED-overflow error, returning no
\* allocation, exactly when some FIXED item's value exceeds what the FIXED
\* items processed before it leave of the total; equality is accepted.
C8_SomeFixedExceeds ==
    \E i \in ItemsOfType(aItems, SplitRuleItemTypeFixed) :
        aItems[i].value > aTotal - ValueSum(aItems, FixedBefore(aItems, i))

C8_FixedOverflow ==
    (FirstDone /\ aTotal > 0 /\ Len(aItems) > 0) =>
        /\ (aFirst.err = ErrFixedExceeds) <=> C8_SomeFixedExceeds
        /\ aFirst.err = ErrFixedExceeds => aFirst.allocation = EmptyMap

C8_Witness ==
    /\ aFirst.err = NoError
    /\ \E i \in ItemsOfType(aItems, SplitRuleItemTypeFixed) :
          /\ aItems[i].value = aTotal - ValueSum(aItems, FixedBefore(aItems, i))
          /\ FixedBefore(aItems, i) # {}

RECURSIVE SumRowAmounts(_)
SumRowAmounts(rows) ==
    IF rows = {} THEN 0
    ELSE LET r == CHOOSE x \in rows : TRUE IN r.amount + SumRowAmounts(rows \ {r})

PersistedIds == { h.id : h \in transactions } \cup { r.tx : r \in entries }

RowsOf(id) == { r \in entries : r.tx = id }

LayerTotal(id, layer, type) ==
    SumRowAmounts({ r \in RowsOf(id) : r.layer = layer /\ r.type = type })

BucketTotal(bucket, type) ==
    SumRowAmounts({ r \in entries : r.bucket = bucket /\ r.type = type })

Committed(id) == id \in DOMAIN outcome /\ outcome[id].status = "committed"

CommittedInflows == { h \in transactions : h.isExternalInflow }

CommittedExpenses == { h \in transactions : ~h.isExternalInflow /\ ~h.isInternalTransfer }

\* C1 (layer balance): in every persisted transaction, for each layer, the
\* DEBIT amounts and the CREDIT amounts of that layer have the same sum.
C1_LayerBalance ==
    \A id \in PersistedIds : \A layer \in {LayerPhysical, LayerVirtual} :
        LayerTotal(id, layer, EntryTypeDebit) = LayerTotal(id, layer, EntryTypeCredit)

C1_Witness ==
    /\ CommittedInflows # {}
    /\ CommittedExpenses # {}
    /\ \A id \in PersistedIds : \A layer \in {LayerPhysical, LayerVirtual} :
          LayerTotal(id, layer, EntryTypeDebit) > 0

\* C2 (balance reconstruction): every bucket's current balance is the sum
\* of the DEBIT amounts minus the sum of the CREDIT amounts of the
\* persisted entries on that bucket.
C2_BalanceReconstruction ==
    \A b \in DOMAIN buckets :
        buckets[b].currentBalance = BucketTotal(b, EntryTypeDebit) - BucketTotal(b, EntryTypeCredit)

C2_Witness ==
    /\ \E id \in DOMAIN outcome : outcome[id].status = "aborted"
    /\ \E b \in DOMAIN buckets :
          /\ BucketTotal(b, EntryTypeDebit) > 0
          /\ buckets[b].currentBalance > 0
    /\ \E b \in DOMAIN buckets :
          /\ BucketTotal(b, EntryTypeCredit) > 0
          /\ buckets[b].currentBalance < 0

\* C3 (atomic posting): the committed tables never show part of a posting.
\* A committed posting shows its header, all of its entries and all of its
\* balance updates; a posting that is still open, or that failed or was
\* cancelled at any step, shows no header, no entry and no balance change.
C3_Atomicity ==
    /\ PersistedIds \subseteq DOMAIN outcome
    /\ \A id \in DOMAIN outcome :
          IF outcome[id].status = "committed"
          THEN /\ Header(outcome[id].tx) \in transactions
               /\ RowsOf(id) = Rows(outcome[id].tx, Len(outcome[id].tx.entries))
          ELSE id \notin PersistedIds
    /\ LET committedRows ==
              UNION { Rows(outcome[id].tx, Len(outcome[id].tx.entries)) :
                      id \in { i \in DOMAIN outcome : Committed(i) } }
       IN  \A b \in { r.bucket : r \in committedRows } \cup DOMAIN buckets :
              buckets[b].currentBalance =
                  SumRowAmounts({ r \in committedRows : r.bucket = b /\ r.type = EntryTypeDebit })
                - SumRowAmounts({ r \in committedRows : r.bucket = b /\ r.type = EntryTypeCredit })

C3_Witness ==
    /\ \E p \in Handlers : pc[p] = "returned" /\ result[p].err = ErrInsertEntryFailed
    /\ \E p \in Handlers : pc[p] = "entries" /\ pn[p] >= 2 /\ Len(ptx[p].entries) > pn[p]

\* C4 (as claimed): for every PHYSICAL bucket, the balances of its VIRTUAL
\* children sum to its own balance.
ChildrenBalance(physical) ==
    SumFn([b \in DOMAIN buckets |-> buckets[b].currentBalance],
          { b \in DOMAIN buckets :
              buckets[b].bucketType = BucketTypeVirtual /\ buckets[b].parent = physical })

C4_VirtualSumEqualsPhysical ==
    \A b \in DOMAIN buckets :
        buckets[b].bucketType = BucketTypePhysical =>
            ChildrenBalance(b) = buckets[b].currentBalance

\* A persisted expense whose PHYSICAL credit is not on the parent of the
\* virtual bucket it credits (a physical override to another account).
CrossAccountExpense(id) ==
    \E r1, r2 \in RowsOf(id) :
        /\ r1.type = EntryTypeCredit /\ r1.layer = LayerPhysical
        /\ r2.type = EntryTypeCredit /\ r2.layer = LayerVirtual
        /\ buckets[r2.bucket].bucketType = BucketTypeVirtual
        /\ r1.bucket # buckets[r2.bucket].parent

\* C4 (amended): as long as no expense was posted with a physical override
\* other than the virtual bucket's own parent, the balances of the VIRTUAL
\* children of every PHYSICAL bucket sum to its balance.
C4_VirtualSumWithoutOverride ==
    (\A id \in PersistedIds : ~CrossAccountExpense(id)) => C4_VirtualSumEqualsPhysical

C4_Witness ==
    /\ CommittedInflows # {}
    /\ CommittedExpenses # {}
    /\ \A id \in PersistedIds : ~CrossAccountExpense(id)
    /\ buckets["Checking"].currentBalance # 0

\* C10: a successful recordInflow persists exactly one transaction, flagged
\* external inflow and not internal transfer, whose PHYSICAL layer is the
\* DEBIT of the targets' parent by amount and the CREDIT of the source by
\* amount, and whose VIRTUAL layer is one DEBIT per allocated target by its
\* allocated amount and one CREDIT of the source by amount.
Shape(r) == [bucket |-> r.bucket, amount |-> r.amount, type |-> r.type, layer |-> r.layer]

InflowPostedAsSpecified(req, id, newHeaders, newRows) ==
    \E a \in CalculateAllocationResults(req.amount, GetBySourceBucketID(req.source).items) :
        /\ a.err = NoError
        /\ newHeaders = { [id |-> id, isInternalTransfer |-> FALSE, isExternalInflow |-> TRUE] }
        /\ \A r \in newRows : r.tx = id
        /\ Cardinality(newRows) = Cardinality(DOMAIN a.allocation) + 3
        /\ \E parent \in DOMAIN buckets :
              /\ buckets[parent].bucketType = BucketTypePhysical
              /\ \A t \in DOMAIN a.allocation : buckets[t].parent = parent
              /\ { Shape(r) : r \in newRows } =
                    { Entry(parent, req.amount, EntryTypeDebit, LayerPhysical),
                      Entry(req.source, req.amount, EntryTypeCredit, LayerPhysical),
                      Entry(req.source, req.amount, EntryTypeCredit, LayerVirtual) }
                    \cup { Entry(t, a.allocation[t], EntryTypeDebit, LayerVirtual) :
                             t \in DOMAIN a.allocation }

C10_InflowPosting ==
    [][ \A p \in Handlers :
          ( /\ pc[p] # "returned"
            /\ pc'[p] = "returned"
            /\ result'[p].req.op = "RecordInflow"
            /\ result'[p].err = NoError )
          => InflowPostedAsSpecified(result'[p].req, result'[p].tx,
                                     transactions' \ transactions, entries' \ entries) ]_vars

C10_Witness ==
    \E p \in Handlers :
        /\ pc[p] = "returned"
        /\ result[p].req.op = "RecordInflow"
        /\ result[p].err = NoError
        /\ Cardinality(RowsOf(result[p].tx)) = 6

\* ------------------------------------------------------------------------
\* Properties of the inflow service
\* ------------------------------------------------------------------------
\* Every target of the rule is a VIRTUAL bucket under the parent of the
\* first item's target.
TargetsConform(items) ==
    \A i \in 1..Len(items) :
        /\ items[i].target \in DOMAIN buckets
        /\ buckets[items[i].target].bucketType = BucketTypeVirtual
        /\ buckets[items[i].target].parent # NilId
        /\ items[1].target \in DOMAIN buckets
        /\ buckets[items[i].target].parent = buckets[items[1].target].parent

InvalidRuleErrors ==
    { ErrFirstTargetNotVirtual, ErrTargetNotVirtual, ErrTargetOtherParent, ErrVirtualNoParent }

\* The request passes every step that precedes the loading of the targets.
ReachesTargets(req) ==
    /\ req.amount > 0
    /\ req.source \in DOMAIN buckets
    /\ buckets[req.source].bucketType = BucketTypeIncome
    /\ req.isExternal
    /\ GetBySourceBucketID(req.source).err = NoError
    /\ \A a \in CalculateAllocationResults(req.amount, GetBySourceBucketID(req.source).items) :
          a.err = NoError

\* The step of handler p that takes up a RecordInflow request.
TakesInflow(p) ==
    /\ pc[p] = "idle"
    /\ pc'[p] # "idle"
    /\ result'[p].req.op = "RecordInflow"

Rejected(p) ==
    /\ pc'[p] = "returned"
    /\ result'[p].err # NoError
    /\ result'[p].tx = 0
    /\ UNCHANGED <<buckets, transactions, entries, marketValueHistory, nextTxId, outcome>>

\* C11 (as claimed): when some target of the source's rule is not a VIRTUAL
\* bucket under the parent of the first item's target, recordInflow fails
\* and persists nothing, and the failure is INVALID_RULE once the request
\* has passed the earlier steps.
C11_NonConformingRuleRejected ==
    [][ \A p \in Handlers :
          ( /\ TakesInflow(p)
            /\ GetBySourceBucketID(result'[p].req.source).err = NoError
            /\ ~TargetsConform(GetBySourceBucketID(result'[p].req.source).items) )
          => ( /\ Rejected(p)
               /\ ReachesTargets(result'[p].req) => result'[p].err \in InvalidRuleErrors ) ]_vars

\* C12: recordInflow fails with INVALID_AMOUNT when amount <= 0, whatever
\* the source is (no bucket is looked up first); with INVALID_TYPE when the
\* amount is positive and the source bucket is not an INCOME bucket; with
\* UNSUPPORTED when the amount is positive, the source is an INCOME bucket
\* and isExternal is false.  In each case nothing is persisted and no
\* balance changes.
C12_InflowRejections ==
    [][ \A p \in Handlers :
          TakesInflow(p) =>
            LET req == result'[p].req IN
            /\ req.amount <= 0
                  => Rejected(p) /\ result'[p].err = ErrInflowAmount
            /\ ( /\ req.amount > 0
                 /\ req.source \in DOMAIN buckets
                 /\ buckets[req.source].bucketType # BucketTypeIncome )
                  => Rejected(p) /\ result'[p].err = ErrSourceNotIncome
            /\ ( /\ req.amount > 0
                 /\ req.source \in DOMAIN buckets
                 /\ buckets[req.source].bucketType = BucketTypeIncome
                 /\ ~req.isExternal )
                  => Rejected(p) /\ result'[p].err = ErrInternalNotImplemented ]_vars

C12_Witness ==
    /\ pc["h1"] = "returned"
    /\ result["h1"].req.op = "RecordInflow"
    /\ result["h1"].req.amount <= 0
    /\ result["h1"].req.source = MissingId
    /\ result["h1"].err = ErrInflowAmount
    /\ CommittedInflows # {}
    /\ buckets["Checking"].currentBalance > 0

\* C13 (as claimed): a recordInflow that posts its transaction was served
\* from a split rule that satisfies the split-rule invariants (at least one
\* item, exactly one REMAINDER, FIXED values > 0, PERCENT values in [0, 100]).
C13_OnlyValidRulesPost ==
    \A p \in Handlers :
        ( /\ pc[p] = "returned"
          /\ result[p].req.op = "RecordInflow"
          /\ result[p].err = NoError )
        => ValidateSplitRule(splitRules[result[p].req.source]) = NoError

\* ------------------------------------------------------------------------
\* Properties of the expense service
\* ------------------------------------------------------------------------
\* The step on which the LogExpense call of handler p returns successfully.
ExpenseSucceeds(p) ==
    /\ pc[p] # "returned"
    /\ pc'[p] = "returned"
    /\ result'[p].req.op = "LogExpense"
    /\ result'[p].err = NoError

\* The physical source the specification names for a request.
PhysicalSourceOf(req) ==
    IF req.override # NilId THEN req.override ELSE buckets[req.virtual].parent

ExpensePostedAsSpecified(req, id, newHeaders, newRows) ==
    /\ newHeaders = { [id |-> id, isInternalTransfer |-> FALSE, isExternalInflow |-> FALSE] }
    /\ \A r \in newRows : r.tx = id
    /\ Cardinality(newRows) = 4
    /\ { Shape(r) : r \in newRows } =
          { Entry(PhysicalSourceOf(req), req.amount, EntryTypeCredit, LayerPhysical),
            Entry(req.category, req.amount, EntryTypeDebit, LayerPhysical),
            Entry(req.virtual, req.amount, EntryTypeCredit, LayerVirtual),
            Entry(req.category, req.amount, EntryTypeDebit, LayerVirtual) }

\* C14: a successful logExpense persists exactly one transaction, with both
\* flags false and exactly four entries of the expense amount: PHYSICAL
\* CREDIT on the physical source (the override if given, else the virtual
\* bucket's parent), PHYSICAL DEBIT on the category, VIRTUAL CREDIT on the
\* virtual bucket, VIRTUAL DEBIT on the category.
C14_ExpensePosting ==
    [][ \A p \in Handlers :
          ExpenseSucceeds(p)
          => ExpensePostedAsSpecified(result'[p].req, result'[p].tx,
                                      transactions' \ transactions, entries' \ entries) ]_vars

C14_Witness ==
    \E p \in Handlers :
        /\ pc[p] = "returned"
        /\ result[p].req.op = "LogExpense"
        /\ result[p].err = NoError
        /\ result[p].req.override = "CreditCard"
        /\ result[p].req.virtual = "FreeCash"
        /\ Cardinality(RowsOf(result[p].tx)) = 4

ExpenseDelta(req, b) ==
    IF b = PhysicalSourceOf(req) THEN 0 - req.amount
    ELSE IF b = req.virtual THEN 0 - req.amount
    ELSE IF b = req.category THEN 2 * req.amount
    ELSE 0

\* C15: a successful logExpense of amount a moves the balance of the
\* physical source by -a, of the virtual bucket by -a, of the category by
\* +2a, and leaves every other bucket alone (with an override, the virtual
\* bucket's own parent among them).
C15_ExpenseBalanceEffect ==
    [][ \A p \in Handlers :
          ExpenseSucceeds(p)
          => \A b \in DOMAIN buckets :
                buckets'[b].currentBalance =
                    buckets[b].currentBalance + ExpenseDelta(result'[p].req, b) ]_vars

C15_Witness ==
    \E p \in Handlers :
        /\ pc[p] = "returned"
        /\ result[p].req.op = "LogExpense"
        /\ result[p].err = NoError
        /\ result[p].req.override = "CreditCard"
        /\ result[p].req.virtual = "FreeCash"
        /\ buckets["Checking"].currentBalance = 0 - Dec(1)
        /\ buckets["CreditCard"].currentBalance = 0 - Dec(1)
        /\ buckets["FreeCash"].currentBalance = 0 - Dec(2)
        /\ buckets["Groceries"].currentBalance = Dec(4)

\* The step of handler p that takes up a LogExpense request.
TakesExpense(p) ==
    /\ pc[p] = "idle"
    /\ pc'[p] # "idle"
    /\ result'[p].req.op = "LogExpense"

HasOtherType(id, bucketType) ==
    id \in DOMAIN buckets /\ buckets[id].bucketType # bucketType

\* C16: logExpense fails and persists nothing when amount <= 0, when the
\* virtual bucket is not VIRTUAL, when the category is not EXPENSE, or when
\* a given override is not PHYSICAL; with amount <= 0 the failure is the
\* amount failure whatever the buckets are (none is loaded first).
C16_ExpenseRejections ==
    [][ \A p \in Handlers :
          TakesExpense(p) =>
            LET req == result'[p].req IN
            /\ ( \/ req.amount <= 0
                 \/ HasOtherType(req.virtual, BucketTypeVirtual)
                 \/ HasOtherType(req.category, BucketTypeExpense)
                 \/ (req.override # NilId /\ HasOtherType(req.override, BucketTypePhysical)) )
               => Rejected(p)
            /\ req.amount <= 0 => result'[p].err = ErrExpenseAmount ]_vars

C16_Witness ==
    /\ pc["h1"] = "returned"
    /\ result["h1"].req.op = "LogExpense"
    /\ result["h1"].req.amount > 0
    /\ result["h1"].req.virtual = "FreeCash"
    /\ result["h1"].req.category = "Groceries"
    /\ result["h1"].req.override = "Vault"
    /\ result["h1"].err = ErrOverrideNotPhysical
    /\ CommittedExpenses # {}

\* ------------------------------------------------------------------------
\* Properties of the transfer-task generator
\* ------------------------------------------------------------------------
Generated == gTasks.err = NoError

\* C17 (as claimed): for the transaction of a logExpense whose physical
\* override differs from the parent of the virtual bucket, the generator
\* emits one task, from the override to that parent, for the expense amount.
C17_WrongCardTask ==
    \A req \in ExpenseRequests :
        ( /\ Generated
          /\ LogExpenseOutcome(req.amount, req.virtual, req.category, req.override).err = NoError
          /\ LogExpenseOutcome(req.amount, req.virtual, req.category, req.override).tx = gTx
          /\ req.override # NilId
          /\ req.override # buckets[req.virtual].parent )
        => gTasks.tasks = << TransferTask(gTx.id, req.override, buckets[req.virtual].parent,
                                          req.amount) >>

\* The physical anchor of a bucket: itself for PHYSICAL, its parent for
\* VIRTUAL, none (NilId) for the others.
Anchor(b) ==
    IF buckets[b].bucketType = BucketTypePhysical THEN b
    ELSE IF buckets[b].bucketType = BucketTypeVirtual THEN buckets[b].parent
    ELSE NilId

AnchoredEntries(tx) ==
    { i \in 1..Len(tx.entries) :
        tx.entries[i].layer = LayerVirtual /\ Anchor(tx.entries[i].bucket) # NilId }

\* Net VIRTUAL-layer flow of the transaction into an anchor.
NetFlow(tx, anchor) ==
    SumFn([i \in 1..Len(tx.entries) |->
              IF tx.entries[i].type = EntryTypeDebit
              THEN tx.entries[i].amount ELSE 0 - tx.entries[i].amount],
          { i \in AnchoredEntries(tx) : Anchor(tx.entries[i].bucket) = anchor })

Anchors(tx) == { Anchor(tx.entries[i].bucket) : i \in AnchoredEntries(tx) }

CrossesAnchors(tx) ==
    \E from, to \in Anchors(tx) :
        from # to /\ NetFlow(tx, from) < 0 /\ NetFlow(tx, to) > 0

\* C18: the generator emits at least one task exactly when the net
\* VIRTUAL-layer flow leaves one physical anchor and arrives at another;
\* it emits none when every VIRTUAL-layer entry has the same anchor, and
\* none when the transaction has no VIRTUAL-layer entry.
C18_TaskSoundness ==
    Generated =>
        /\ (Len(gTasks.tasks) >= 1) <=> CrossesAnchors(gTx)
        /\ Cardinality(Anchors(gTx)) <= 1 => gTasks.tasks = << >>
        /\ VirtualEntries(gTx) = << >> => gTasks.tasks = << >>

C18_Witness ==
    /\ Generated
    /\ Cardinality(Anchors(gTx)) = 3
    /\ Len(gTasks.tasks) = 2

\* The amounts of the emitted tasks that satisfy a test on their end points.
TaskAmountFrom(anchor) ==
    SumFn([i \in 1..Len(gTasks.tasks) |-> gTasks.tasks[i].amount],
          { i \in 1..Len(gTasks.tasks) : gTasks.tasks[i].fromPhysicalBucketID = anchor })

TaskAmountTo(anchor) ==
    SumFn([i \in 1..Len(gTasks.tasks) |-> gTasks.tasks[i].amount],
          { i \in 1..Len(gTasks.tasks) : gTasks.tasks[i].toPhysicalBucketID = anchor })

TaskAmountTotal ==
    SumFn([i \in 1..Len(gTasks.tasks) |-> gTasks.tasks[i].amount], 1..Len(gTasks.tasks))

Senders(tx) == { a \in Anchors(tx) : NetFlow(tx, a) < 0 }
Receivers(tx) == { a \in Anchors(tx) : NetFlow(tx, a) > 0 }

SenderTotal(tx) == SumFn([a \in Anchors(tx) |-> 0 - NetFlow(tx, a)], Senders(tx))
ReceiverTotal(tx) == SumFn([a \in Anchors(tx) |-> NetFlow(tx, a)], Receivers(tx))

\* C28: whatever the order in which senders and receivers are visited,
\* every emitted task has a positive amount and distinct end points, leaves
\* a sender and arrives at a receiver; the amounts leaving a sender sum to
\* at most the absolute value of its net flow, those arriving at a receiver
\* to at most its net flow; the total of the task amounts is the smaller of
\* the senders' total and the receivers' total, so that equal totals drain
\* every non-zero flow.
C28_TaskAmounts ==
    Generated =>
        /\ \A i \in 1..Len(gTasks.tasks) :
              /\ gTasks.tasks[i].amount > 0
              /\ gTasks.tasks[i].fromPhysicalBucketID # gTasks.tasks[i].toPhysicalBucketID
              /\ gTasks.tasks[i].fromPhysicalBucketID \in Senders(gTx)
              /\ gTasks.tasks[i].toPhysicalBucketID \in Receivers(gTx)
        /\ \A a \in Senders(gTx) : TaskAmountFrom(a) <= 0 - NetFlow(gTx, a)
        /\ \A a \in Receivers(gTx) : TaskAmountTo(a) <= NetFlow(gTx, a)
        /\ TaskAmountTotal = IF SenderTotal(gTx) < ReceiverTotal(gTx)
                             THEN SenderTotal(gTx) ELSE ReceiverTotal(gTx)
        /\ SenderTotal(gTx) = ReceiverTotal(gTx) =>
              /\ \A a \in Senders(gTx) : TaskAmountFrom(a) = 0 - NetFlow(gTx, a)
              /\ \A a \in Receivers(gTx) : TaskAmountTo(a) = NetFlow(gTx, a)

\* Two tasks were emitted for one sender and two receivers whose total
\* exceeds what the sender sends: the second receiver is left partly
\* unfilled.
C28_Witness ==
    /\ Generated
    /\ Len(gTasks.tasks) = 2
    /\ Cardinality(Senders(gTx)) = 1
    /\ Cardinality(Receivers(gTx)) = 2
    /\ SenderTotal(gTx) < ReceiverTotal(gTx)

\* ------------------------------------------------------------------------
\* Properties of the investment service
\* ------------------------------------------------------------------------
\* The step on which the UpdateMarketValue call of handler p succeeds.
MarketValueUpdated(p) ==
    /\ pc[p] = "idle"
    /\ pc'[p] = "returned"
    /\ result'[p].req.op = "UpdateMarketValue"
    /\ result'[p].err = NoError

\* C19: a successful updateMarketValue(bucket, value) appends exactly one
\* market-value point, for that bucket and value, creates no transaction and
\* no entry, and leaves the running balance of every bucket unchanged.
C19_MarketValueOnly ==
    [][ \A p \in Handlers :
          MarketValueUpdated(p)
          => /\ \E date \in ClockReadings :
                   marketValueHistory' =
                       Append(marketValueHistory,
                              MarketValueHistory(result'[p].req.bucketID, date,
                                                 result'[p].req.amount))
             /\ UNCHANGED <<transactions, entries, buckets>> ]_vars

C19_Witness ==
    /\ pc["h1"] = "returned"
    /\ result["h1"].req.op = "UpdateMarketValue"
    /\ result["h1"].req.bucketID = "Tesla"
    /\ result["h1"].err = NoError
    /\ Len(marketValueHistory) = 2
    /\ entries # {}
    /\ buckets["Checking"].currentBalance > 0

\* C20 (as claimed): every stored market-value point refers to a bucket of
\* type EQUITY.
C20_PointsOnlyForEquity ==
    \A i \in 1..Len(marketValueHistory) :
        buckets[marketValueHistory[i].bucketID].bucketType = BucketTypeEquity

\* ------------------------------------------------------------------------
\* Properties of the dashboard service
\* ------------------------------------------------------------------------
BucketsOfType(bucketType) == { b \in DOMAIN buckets : buckets[b].bucketType = bucketType }

PointsOf(b) == { i \in 1..Len(marketValueHistory) : marketValueHistory[i].bucketID = b }

\* The market value of a point of b with the highest timestamp; 0 when b
\* has no point.
LatestMarketValues(b) ==
    IF PointsOf(b) = {} THEN {0}
    ELSE { marketValueHistory[i].marketValue :
             i \in { j \in PointsOf(b) :
                       \A k \in PointsOf(b) :
                           marketValueHistory[j].date >= marketValueHistory[k].date } }

NetWorthReturned(p) ==
    /\ pc[p] = "returned"
    /\ result[p].req.op = "GetNetWorth"
    /\ result[p].err = NoError

SystemBucketIDs == { SYS_VIRTUAL_CLEARING, SYS_LOST_MISC, SYS_EXTRA_INCOME }

SeededRow == [bucketType |-> BucketTypeSystem, parent |-> NilId, currentBalance |-> 0]

\* The step on which a run of the seeder returns.
SeedReturns(p) ==
    /\ pc[p] = "idle"
    /\ pc'[p] = "returned"
    /\ result'[p].req.op = "Seed"

\* C22 (seeder idempotence): a run of the seeder modifies no bucket that is
\* already there; a run that succeeds leaves the three system buckets at
\* their reserved identifiers with type SYSTEM, balance zero and no parent,
\* and adds nothing else; a run that finds all three creates none again: it
\* succeeds and leaves the bucket store as it was.
C22_SeederIdempotent ==
    [][ \A p \in Handlers :
          SeedReturns(p) =>
            /\ \A b \in DOMAIN buckets : b \in DOMAIN buckets' /\ buckets'[b] = buckets[b]
            /\ result'[p].err = NoError =>
                  /\ DOMAIN buckets' = DOMAIN buckets \cup SystemBucketIDs
                  /\ \A id \in SystemBucketIDs : buckets'[id] = SeededRow
            /\ SystemBucketIDs \subseteq DOMAIN buckets =>
                  /\ result'[p].err = NoError
                  /\ buckets' = buckets ]_vars

\* A run has succeeded on a bucket store whose balances postings have
\* changed.
C22_Witness ==
    /\ pc["h1"] = "returned"
    /\ result["h1"].req.op = "Seed"
    /\ result["h1"].err = NoError
    /\ SystemBucketIDs \subseteq DOMAIN buckets
    /\ buckets["Checking"].currentBalance # 0
    /\ CommittedExpenses # {}

\* ------------------------------------------------------------------------
\* Properties of the RPC error mapping
\* ------------------------------------------------------------------------
\* The failure kinds of the posting services, as the errors that carry them.
InvalidTypeErrors ==
    { ErrSourceNotIncome, ErrNotVirtual, ErrNotExpense, ErrOverrideNotPhysical }

AllocationOverflowErrors == { ErrFixedExceeds }

AllocationImbalanceErrors == { ErrAllocationImbalance }

LayerImbalanceErrors == { ErrPhysicalImbalance, ErrVirtualImbalance }

PostingReturned(p) ==
    /\ pc[p] = "returned"
    /\ result[p].req.op \in {"RecordInflow", "LogExpense"}

\* C23 (as claimed): every failure of kind INVALID_TYPE, INVALID_RULE,
\* ALLOCATION_OVERFLOW, ALLOCATION_IMBALANCE or LAYER_IMBALANCE raised while
\* handling RecordInflow or LogExpense reaches the caller with the status
\* INVALID_ARGUMENT.
C23_RejectionsAreInvalidArgument ==
    \A p \in Handlers :
        ( /\ PostingReturned(p)
          /\ result[p].err \in InvalidTypeErrors \cup InvalidRuleErrors
                                \cup AllocationOverflowErrors \cup AllocationImbalanceErrors
                                \cup LayerImbalanceErrors )
        => result[p].code = codesInvalidArgument

\* C24 (as claimed): a RecordInflow request with isExternal = false that
\* fails as unsupported reaches the caller with the status UNIMPLEMENTED.
C24_InternalInflowUnimplemented ==
    \A p \in Handlers :
        ( /\ pc[p] = "returned"
          /\ result[p].req.op = "RecordInflow"
          /\ ~result[p].req.isExternal
          /\ result[p].err = ErrInternalNotImplemented )
        => result[p].code = codesUnimplemented

\* ------------------------------------------------------------------------
\* Properties of bucket validation
\* ------------------------------------------------------------------------
\* C25 (as claimed): validation accepts a bucket only if its name is
\* non-empty and its parent reference is present exactly when its type is
\* VIRTUAL; a bucket of another type that carries a parent is rejected.
C25_ParentExactlyForVirtual ==
    \A p \in Handlers :
        (pc[p] = "returned" /\ result[p].req.op = "Validate") =>
            LET bucket == result[p].req.bucket IN
            (result[p].err = NoError) <=>
                ( /\ bucket.name # ""
                  /\ (bucket.parent # NilId) <=> (bucket.bucketType = BucketTypeVirtual) )

\* ------------------------------------------------------------------------
\* Properties of the authentication interceptor
\* ------------------------------------------------------------------------
\* The metadata of the call that handler p accepts in this step.
AcceptedCall(p) == pc[p] = "idle" /\ pc'[p] # "idle"
CallMetadata(p) == result'[p].req.md

RejectedUnauthenticated(p) ==
    /\ pc'[p] = "returned"
    /\ result'[p].err \in {ErrMissingMetadata, ErrMissingAuthorization, ErrInvalidToken}
    /\ result'[p].code = codesUnauthenticated
    /\ UNCHANGED <<dbvars, nextTxId, outcome, ptx>>

FirstValueIsToken(md) ==
    md.ok /\ Len(md.authorization) > 0 /\ md.authorization[1] = validToken

SomeValueIsToken(md) ==
    md.ok /\ \E i \in 1..Len(md.authorization) : md.authorization[i] = validToken

\* C26 (as claimed): the interceptor invokes the wrapped handler if and only
\* if the request metadata carries an authorization value equal to the
\* configured token; otherwise it returns UNAUTHENTICATED and nothing
\* changes.
C26_HandlerIffSomeValueIsToken ==
    [][\A p \in Handlers :
          AcceptedCall(p) =>
              IF SomeValueIsToken(CallMetadata(p))
              THEN Handler(p, CallMetadata(p))
              ELSE RejectedUnauthenticated(p)]_vars

\* C26 (amended): the interceptor invokes the wrapped handler if and only if
\* the first authorization value of the request metadata equals the
\* configured token; with no metadata, no authorization entry or a first
\* value different from the token it returns UNAUTHENTICATED and the
\* handler, and therefore any state change, is never executed.
C26_HandlerIffFirstValueIsToken ==
    [][\A p \in Handlers :
          AcceptedCall(p) =>
              IF FirstValueIsToken(CallMetadata(p))
              THEN Handler(p, CallMetadata(p)) /\ ~RejectedUnauthenticated(p)
              ELSE RejectedUnauthenticated(p) /\ ~Handler(p, CallMetadata(p))]_vars

\* A call whose second authorization value is the token has been rejected
\* after an authenticated posting was committed.
C26_Witness ==
    /\ transactions # {}
    /\ \E p \in Handlers :
          /\ pc[p] = "returned"
          /\ result[p].req.md = Metadata(<<"other-token", validToken>>)
          /\ result[p].err = ErrInvalidToken

\* ------------------------------------------------------------------------
\* Properties of concurrent postings
\* ------------------------------------------------------------------------
\* The signed amount (DEBIT plus, CREDIT minus) the first n entries of a
\* transaction put on a bucket.
RECURSIVE SignedAmountOn(_, _, _)
SignedAmountOn(tx, bucket, n) ==
    IF n = 0 THEN 0
    ELSE SignedAmountOn(tx, bucket, n - 1) +
         ( IF tx.entries[n].bucket # bucket THEN 0
           ELSE IF tx.entries[n].type = EntryTypeDebit THEN tx.entries[n].amount
           ELSE 0 - tx.entries[n].amount )

\* The signed amounts of the committed transactions 1..id on a bucket.
RECURSIVE CommittedAmountOn(_, _)
CommittedAmountOn(bucket, id) ==
    IF id = 0 THEN 0
    ELSE CommittedAmountOn(bucket, id - 1) +
         ( IF Committed(id)
           THEN SignedAmountOn(outcome[id].tx, bucket, Len(outcome[id].tx.entries))
           ELSE 0 )

Touches(tx, bucket) == \E n \in 1..Len(tx.entries) : tx.entries[n].bucket = bucket

\* C27 (no lost update): under any interleaving of concurrent postings,
\* every bucket's balance equals its prior balance (zero) plus the signed
\* amounts of every entry of the committed transactions on it; the entries
\* of open and of rolled-back transactions do not count.
C27_NoLostUpdate ==
    \A b \in DOMAIN buckets :
        buckets[b].currentBalance = CommittedAmountOn(b, Len(outcome))

\* Two postings on the same bucket have overlapped: a handler still has its
\* transaction open and has written a bucket on which a transaction that
\* began later has already committed with a non-zero effect.
C27_Witness ==
    \E p \in Handlers : \E id \in DOMAIN outcome : \E b \in DOMAIN plocal[p] :
        /\ pc[p] = "entries"
        /\ id > ptx[p].id
        /\ Committed(id)
        /\ Touches(outcome[id].tx, b)
        /\ buckets[b].currentBalance # 0
        /\ plocal[p][b] # buckets[b].currentBalance

\* ------------------------------------------------------------------------
\* Conservation of the balances
\* ------------------------------------------------------------------------
\* The sum of currentBalance over all buckets.
TotalBalance == SumFn([b \in DOMAIN buckets |-> buckets[b].currentBalance], DOMAIN buckets)

\* C29 (conservation): no step of a posting, whether the posting succeeds,
\* is rejected or is rolled back, and no updateMarketValue changes the sum
\* of currentBalance over all buckets; the sum therefore keeps its initial
\* value, zero.
C29_TotalBalanceConserved ==
    TotalBalance = 0

\* A posting has been committed, another has been rolled back, a market
\* value has been recorded, and balances have moved in both directions.
C29_Witness ==
    /\ CommittedInflows \cup CommittedExpenses # {}
    /\ \E id \in DOMAIN outcome : outcome[id].status = "aborted"
    /\ marketValueHistory # << >>
    /\ \E b \in DOMAIN buckets : buckets[b].currentBalance > 0
    /\ \E b \in DOMAIN buckets : buckets[b].currentBalance < 0

\* ------------------------------------------------------------------------
\* Allocations with a non-positive amount
\* ------------------------------------------------------------------------
\* The request gets as far as a computed allocation, and the allocation
\* holds an amount <= 0 for some target.
NonPositiveAllocation(req) ==
    /\ ReachesTargets(req)
    /\ \A a \in CalculateAllocationResults(req.amount, GetBySourceBucketID(req.source).items) :
          \E t \in DOMAIN a.allocation : a.allocation[t] <= 0

\* C30 (as claimed): recordInflow fails at transaction validation and
\* persists nothing whenever the computed allocation contains an amount
\* <= 0 for some target.
C30_FailsAtValidation ==
    [][ \A p \in Handlers :
          (TakesInflow(p) /\ NonPositiveAllocation(result'[p].req))
          => (Rejected(p) /\ result'[p].err = ErrEntryAmount) ]_vars

\* C30 (amended): recordInflow fails and persists nothing whenever the
\* computed allocation contains an amount <= 0 for some target; the failure
\* is the one of transaction validation when every target of the rule is a
\* VIRTUAL bucket under the parent of the first target, and otherwise
\* either that one or the one of the target checks, which run first.
C30_NonPositiveAllocationRejected ==
    [][ \A p \in Handlers :
          (TakesInflow(p) /\ NonPositiveAllocation(result'[p].req))
          => /\ Rejected(p)
             /\ result'[p].err \in InvalidRuleErrors \cup {ErrEntryAmount}
             /\ TargetsConform(GetBySourceBucketID(result'[p].req.source).items)
                   => result'[p].err = ErrEntryAmount ]_vars

\* An inflow that the FIXED item of the rule consumes whole, leaving the
\* REMAINDER target an amount of zero, has been refused by transaction
\* validation; nothing is stored.
C30_Witness ==
    /\ pc["h1"] = "returned"
    /\ result["h1"].req.op = "RecordInflow"
    /\ result["h1"].req.amount = Dec(2)
    /\ result["h1"].err = ErrEntryAmount
    /\ splitRules["Employer"] =
          << Item("Vault", SplitRuleItemTypeFixed, Dec(2), 1),
             Item("Emergency", SplitRuleItemTypeRemainder, 0, 2) >>
    /\ transactions = {}
    /\ entries = {}

====
